---- MODULE Spec2Model ----
(***************************************************************************)
(* Plugin lifecycle of the Dropseed audio graph: one plugin host entry     *)
(* (PluginInstanceHost, src/graph/plugin_host/mod.rs), the coordinator     *)
(* operations that drive it (AudioGraph, src/graph/mod.rs) and the audio   *)
(* thread's process cycle (PluginInstanceHostAudioThread::process).        *)
(*                                                                         *)
(* The state word and the request flags are relaxed atomics shared by the  *)
(* main thread, the audio thread and the plugin.  Every step of the model  *)
(* performs at most one access to a shared atomic; the program counters    *)
(* m_pc and a_pc are named after the source line of the next access: Lnnn  *)
(* is a line of src/graph/plugin_host/mod.rs, Gnnn one of src/graph/mod.rs.*)
(* Of the host's save state the model keeps activation_requested, which    *)
(* the host writes and never reads (save_activation_requested).            *)
(***************************************************************************)
EXTENDS Naturals, Sequences, FiniteSets

VARIABLES
    \* ---- PluginInstanceHost (main-thread half) ----
    main_thread,           \* main_thread.is_some()
    state,                 \* SharedPluginState word, shared with the audio thread
    restart_requested,     \* shared with the plugin (HostRequest)
    process_requested,     \* shared with the plugin and the audio thread
    callback_requested,    \* shared with the plugin
    deactivate_requested,  \* shared with the audio thread
    remove_requested,
    audio_ports_ext,       \* audio_ports_ext.is_some()
    param_queues,          \* param_queues.is_some()
    handles,               \* a PluginInstanceHostAudioThread has been made
    save_activation_requested,
                           \* save_state.activation_requested
    \* ---- PluginInstanceHostEntry / AudioGraph ----
    in_pool,               \* the entry is in shared_plugin_pool.plugins
    audio_thread,          \* entry.audio_thread.is_some()
    recompile_graph,       \* AudioGraph::on_idle's local recompile_graph
    \* ---- main thread: position, callers, values being returned ----
    m_pc, m_op, m_caller, m_act_caller, m_res, m_err, m_handle,
    \* ---- history of the main-thread operation in progress ----
    tick_log,              \* what the on_idle tick has done so far, in order
    tick_start,            \* the shared state when the operation started,
                           \* NoSnapshot once another thread has stepped
    \* ---- audio thread: position, locals, what the cycle has done ----
    a_pc, a_state, a_status, a_start, cleared, a_calls,
    \* ---- AudioGraph: abstract graph and plugin registry ----
    g_nodes,               \* node refs of abstract_graph
    g_ports,               \* <<node ref, PortChannelID>> of abstract_graph
    g_edges,               \* [src |-> port ref, dst |-> port ref]
    g_next,                \* the node ref abstract_graph.node() returns next
    plugins,               \* shared_plugin_pool.plugins, by node ref
    g_res,                 \* how the last AudioGraph operation ended:
                           \* "panic", "ignored" for a removal that was
                           \* refused, otherwise "Ok" (it returned)
    g_saved,               \* the plugin list of the save state the last
                           \* restore_from_save_state was made from
    \* ---- SharedSchedule: the schedule cell and its two users ----
    sched_cell,            \* the schedule the cell holds
    sched_count,           \* set_new_schedule calls that have returned
    c_res,                 \* what the last compile returned
    c_err,                 \* the VerifyScheduleError of a VerifierError
    c_out,                 \* the tasks compile_graph returned to it
    ps_pc,                 \* audio thread: position in process_interleaved
    ps_seen,               \* sched_count when the call started
    ps_sched,              \* latest_schedule, the schedule the call loaded
    ps_i,                  \* the next task of the call
    ps_ran,                \* the tasks the call has run, in order
    \* ---- the audio buffers of a schedule and one cycle over them ----
    t_pc,                  \* audio thread: position in the cycle
    t_task,                \* the DeactivatedPluginTask of the schedule
    t_in,                  \* audio_in, the interleaved input of the call
    t_out,                 \* audio_out, the interleaved output of the call
    t_buf,                 \* the samples each buffer of the pool holds
    \* ---- PluginHostProcThread and its channel to the main thread ----
    h_exists,              \* the PluginHostProcThread has not been dropped
    h_active,              \* channel.shared_state: the PluginActiveState
    h_start,               \* channel.shared_state: start processing asked
    h_pstate,              \* processing_state
    h_plugin,              \* the plugin is between a successful
                           \* start_processing and a stop_processing
    h_to_audio,            \* main-to-audio queue: the value of the parameter
    h_to_main,             \* audio-to-main queue: the value of the parameter
    h_param_out,           \* event_buffers.param_out_buffer
    h_note_out,            \* event_buffers.note_out_buffers
    h_cycle                \* what the last call of process or drop did

shared    == <<state, restart_requested, process_requested,
               callback_requested, deactivate_requested>>
hostvars  == <<main_thread, remove_requested, audio_ports_ext, param_queues,
               handles, save_activation_requested>>
coordvars == <<in_pool, audio_thread, recompile_graph>>
mctl      == <<m_pc, m_op, m_caller, m_act_caller, m_res, m_err, m_handle>>
tickvars  == <<tick_log, tick_start>>
audiovars == <<a_pc, a_state, a_status, a_start, cleared, a_calls>>
graphvars == <<g_nodes, g_ports, g_edges, g_next, plugins, g_res, g_saved>>
hostside  == <<shared, hostvars, coordvars, mctl, tickvars, audiovars>>
schedvars == <<sched_cell, sched_count, c_res, c_err, c_out, ps_pc, ps_seen,
               ps_sched, ps_i, ps_ran>>
taskvars  == <<t_pc, t_task, t_in, t_out, t_buf>>
procvars  == <<h_exists, h_active, h_start, h_pstate, h_plugin, h_to_audio,
               h_to_main, h_param_out, h_note_out, h_cycle>>
vars      == <<hostside, graphvars, schedvars, taskvars, procvars>>

----------------------------------------------------------------------------
\* PluginState and its predicates

PluginState ==
    {"Inactive", "InactiveWithError", "ActiveAndSleeping",
     "ActiveAndProcessing", "ActiveAndWaitingForQuiet",
     "ActiveAndWaitingForTail", "ActiveWithError",
     "ActiveAndReadyToDeactivate"}

is_active_unless_Inactive(s) == s # "Inactive"

is_active(s) == s \notin {"Inactive", "InactiveWithError"}

is_processing(s) ==
    s \in {"ActiveAndProcessing", "ActiveAndWaitingForQuiet",
           "ActiveAndWaitingForTail"}

is_sleeping(s) == s = "ActiveAndSleeping"

ProcessStatus == {"Continue", "ContinueIfNotQuiet", "Tail", "Sleep", "Error"}

ActivatePluginError ==
    {"NotLoaded", "AlreadyActive", "RestartScheduled",
     "PluginFailedToGetAudioPortsExt", "PluginSpecific"}

OnIdleResult ==
    {"Ok", "PluginDeactivated", "PluginActivated", "PluginReadyToRemove",
     "PluginFailedToActivate"}

\* SharedPluginState::new() stores 0, which is PluginState::Inactive.
SharedPluginState_new == "Inactive"

Snapshot ==
    [state |-> state, restart |-> restart_requested,
     deactivate |-> deactivate_requested, process |-> process_requested,
     callback |-> callback_requested]

NoSnapshot ==
    [state |-> "None", restart |-> FALSE, deactivate |-> FALSE,
     process |-> FALSE, callback |-> FALSE]

----------------------------------------------------------------------------
\* AudioGraph: the abstract graph, its ports and the plugin registry

\* The number of plugin instances added between two resets.
MaxPlugins == 2

PortType == {"Audio", "Event"}

ConnectEdgeErrorType ==
    {"SrcPluginDoesNotExist", "DstPluginDoesNotExist", "SrcPortDoesNotExist",
     "DstPortDoesNotExist", "Cycle", "Unkown"}

\* The node refs of the graph-in and graph-out nodes: the first two nodes of
\* a fresh abstract graph (reset, L605-L606).
graph_in_node_id == 0

graph_out_node_id == 1

NodeRefs == 0..(MaxPlugins + 1)

PortChannelID(type, stable_id, is_input, channel) ==
    [port_type |-> type, port_stable_id |-> stable_id, is_input |-> is_input,
     port_channel |-> channel]

\* reset, L619-L646, with graph_in_channels = graph_out_channels = 1.
GraphInPorts == {PortChannelID("Audio", 0, FALSE, 0)}

GraphOutPorts == {PortChannelID("Audio", 0, TRUE, 0)}

\* The ports update_plugin_ports asks for: the plugin's audio ports (one
\* mono input with stable id 0, one mono output with stable id 1) and the
\* event input and output every plugin has (L958-L969).
PluginPorts ==
    {PortChannelID("Audio", 0, TRUE, 0), PortChannelID("Audio", 1, FALSE, 0),
     PortChannelID("Event", 0, TRUE, 0), PortChannelID("Event", 1, FALSE, 0)}

\* A registry entry: the host's state as the coordinator sees it and the
\* entry's port_channels_refs.
PluginInstanceHostEntry(active, remove, activation, refs) ==
    [active |-> active, remove_requested |-> remove,
     activation_requested |-> activation, port_channels_refs |-> refs]

NoSaveState == [restored |-> FALSE, plugins |-> <<>>, panicked |-> FALSE]

\* AudioGraph::new followed by reset: the graph-in and graph-out nodes with
\* their ports, their two registry entries and no edge.
AudioGraph_reset_nodes == {graph_in_node_id, graph_out_node_id}

AudioGraph_reset_ports ==
    {<<graph_in_node_id, p>> : p \in GraphInPorts}
      \cup {<<graph_out_node_id, p>> : p \in GraphOutPorts}

AudioGraph_reset_plugins ==
    [n \in AudioGraph_reset_nodes |->
       PluginInstanceHostEntry(FALSE, FALSE, FALSE,
         IF n = graph_in_node_id THEN GraphInPorts ELSE GraphOutPorts)]

AudioGraph_new ==
    /\ g_nodes = AudioGraph_reset_nodes
    /\ g_ports = AudioGraph_reset_ports
    /\ g_edges = {}
    /\ g_next = 2
    /\ plugins = AudioGraph_reset_plugins
    /\ g_res = "Ok"
    /\ g_saved = NoSaveState

\* ---- Schedule and the schedule cell ----

MaxTasks == 2

MaxSchedules == 3

\* The channels of a port and the buffers of the pool.
MaxChannels == 2

BufferIds == 0..(MaxChannels - 1)

\* The buffers a compiler may assign to the channels of a port: the pool
\* hands the first channel buffer 0 and every later channel any buffer,
\* a fresh one or one already handed out.
BufferLists == {b \in [1..MaxChannels -> BufferIds] : b[1] = 0}

\* The node refs of plugins.
PluginIds == 2..(MaxPlugins + 1)

\* Task: a Plugin task holds the audio-thread handle of a plugin; a Sum
\* task (like a DelayComp or DeactivatedPlugin task) holds none, `plugin`
\* is then the plugin it feeds.
\* Its audio buffers are the channel buffers of a port, in channel order:
\* what it reads (audio_in) and what it writes (audio_out).
Tasks ==
    [kind : {"Plugin", "Sum"}, plugin : PluginIds,
     audio_in : BufferLists, audio_out : BufferLists]

\* A schedule: its tasks in order; id tells the allocations apart, the
\* n-th schedule handed to set_new_schedule has id n.
Schedule(id, tasks) == [id |-> id, tasks |-> tasks]

\* Schedule::empty
Schedule_empty(id) == Schedule(id, <<>>)

\* The frames a buffer of the pool holds, and the values of a sample (0
\* is 0.0).
MaxFrames == 2

Samples == 0..1

\* The buffers of the pool that a cycle in which one plugin sits in line
\* uses: those of the graph-in channels, which are the plugin's inputs,
\* and those of the plugin's output channels.
InBuffer(channel) == channel - 1

OutBuffer(channel) == MaxChannels + channel - 1

\* DeactivatedPluginTask of a plugin with n_in input and n_out output
\* channels on its main ports: the first k channels are paired, the other
\* outputs are extra.
DeactivatedPluginTask(n_in, n_out) ==
    LET k == IF n_in < n_out THEN n_in ELSE n_out
    IN  [audio_through |-> [i \in 1..k |-> <<InBuffer(i), OutBuffer(i)>>],
         extra_audio_out |-> [i \in 1..(n_out - k) |-> OutBuffer(k + i)]]

\* ---- PluginHostProcThread ----

\* The values of the one parameter of the plugin; 0 stands for no value
\* (an empty queue, no event).
MaxValue == 2

\* ProcessingState (process_thread.rs L11-L16).
WaitingForStart == [tag |-> "WaitingForStart", status |-> "none"]

Started(status) == [tag |-> "Started", status |-> status]

Stopped == [tag |-> "Stopped", status |-> "none"]

Errored == [tag |-> "Errored", status |-> "none"]

\* What the plugin's process puts out: a value of the parameter or none,
\* a note event or none, and audio that is silent or not.
NoEvents == [param |-> 0, note |-> FALSE, silent |-> TRUE]

\* What a process that answers `status` may put out; whether the audio
\* is silent is told apart for the answer Tail, where the host is to look
\* at it.
ProcessOutputs(status) ==
    [param : 0..MaxValue, note : BOOLEAN,
     silent : IF status = "Tail" THEN BOOLEAN ELSE {TRUE}]

\* Whether the audio inputs of a call are silent is told apart for a
\* plugin whose last status was ContinueIfNotQuiet, where the host looks
\* at it.
AudioInputsSilent(pstate) ==
    IF pstate = Started("ContinueIfNotQuiet") THEN BOOLEAN ELSE {FALSE}

\* What a call records: the parity of the calls so far; whether a note
\* event was input and whether the audio inputs were silent, FALSE when
\* the call returned before it read its inputs (L83); the calls it made to
\* the plugin; the parameter value it handed the plugin; what the
\* plugin's process put out; whether it cleared the audio outputs.
NoCycle ==
    [op |-> "none", n |-> 0, note_in |-> FALSE, silent |-> FALSE,
     calls |-> <<>>, passed |-> 0, emitted |-> NoEvents,
     outputs_cleared |-> FALSE]

\* PluginHostProcThread::new (L34-L49) for a plugin the main thread has
\* just activated, with empty queues and event buffers.
PluginHostProcThread_new ==
    /\ h_exists = TRUE
    /\ h_active = "Active"
    /\ h_start = FALSE
    /\ h_pstate = WaitingForStart
    /\ h_plugin = FALSE
    /\ h_to_audio = 0
    /\ h_to_main = 0
    /\ h_param_out = <<>>
    /\ h_note_out = <<>>
    /\ h_cycle = NoCycle

\* SharedSchedule::new, called by AudioGraph::new with the empty schedule;
\* the buffers of the pool are allocated zeroed.
SharedSchedule_new ==
    /\ PluginHostProcThread_new
    /\ t_pc = "idle"
    /\ t_task = DeactivatedPluginTask(0, 0)
    /\ t_in = <<>>
    /\ t_out = <<>>
    /\ t_buf = [b \in 0..(2 * MaxChannels - 1) |-> [f \in 1..MaxFrames |-> 0]]
    /\ sched_cell = Schedule_empty(0)
    /\ sched_count = 0
    /\ c_res = "none"
    /\ c_err = "none"
    /\ c_out = <<>>
    /\ ps_pc = "idle"
    /\ ps_seen = 0
    /\ ps_sched = Schedule_empty(0)
    /\ ps_i = 1
    /\ ps_ran = <<>>

----------------------------------------------------------------------------
\* PluginInstanceHost::new.  The constructor stores InactiveWithError for a
\* plugin that failed to load on a local state word and then builds the host
\* with a second, fresh word: the host's word starts as Inactive either way.

PluginInstanceHost_new ==
    /\ main_thread \in BOOLEAN
    /\ state = SharedPluginState_new
    /\ restart_requested = FALSE
    /\ process_requested = FALSE
    /\ callback_requested = FALSE
    /\ deactivate_requested = FALSE
    /\ remove_requested = FALSE
    /\ audio_ports_ext = FALSE
    /\ param_queues = FALSE
    /\ handles = FALSE
    /\ save_activation_requested = FALSE
    /\ in_pool = TRUE
    /\ audio_thread = FALSE
    /\ recompile_graph = FALSE
    /\ m_pc = "idle"
    /\ m_op = "none"
    /\ m_caller = "none"
    /\ m_act_caller = "none"
    /\ m_res = "none"
    /\ m_err = "none"
    /\ m_handle = FALSE
    /\ tick_log = <<>>
    /\ tick_start = NoSnapshot
    /\ a_pc = "idle"
    /\ a_state = "None"
    /\ a_status = "None"
    /\ a_start = FALSE
    /\ cleared = FALSE
    /\ a_calls = <<>>

Init == PluginInstanceHost_new /\ AudioGraph_new /\ SharedSchedule_new

\* The main thread moves; the audio thread stays where it is.
MainStep(pc) ==
    /\ m_pc = pc
    /\ in_pool
    /\ UNCHANGED audiovars
    /\ UNCHANGED <<graphvars, schedvars, taskvars, procvars>>

Goto(pc) ==
    /\ m_pc' = pc
    /\ UNCHANGED <<m_op, m_caller, m_act_caller, m_res, m_err, m_handle>>

Log(e) ==
    /\ tick_log' = Append(tick_log, e)
    /\ UNCHANGED tick_start

\* A coordinator operation starts on the idle main thread.
Begin(op, pc) ==
    /\ m_pc = "idle"
    /\ in_pool
    /\ m_op' = op
    /\ m_pc' = pc
    /\ tick_start' = Snapshot
    /\ UNCHANGED <<m_res, m_err, m_handle, tick_log>>
    /\ UNCHANGED audiovars
    /\ UNCHANGED <<graphvars, schedvars, taskvars, procvars>>

\* A coordinator operation returns: its locals are gone.
Finish ==
    /\ m_pc' = "idle"
    /\ m_op' = "none"
    /\ m_caller' = "none"
    /\ m_act_caller' = "none"
    /\ m_res' = "none"
    /\ m_err' = "none"
    /\ m_handle' = FALSE
    /\ tick_log' = <<>>
    /\ tick_start' = NoSnapshot

----------------------------------------------------------------------------
\* PluginInstanceHost::can_activate, called from
\* AudioGraph::activate_plugin_instance (G241) and from activate (L138).

\* can_activate returns Err(e): activate_plugin_instance turns it into
\* Ok(ActivationError(e)) (G242), activate passes it on with `?` (L138) and
\* on_idle wraps it in PluginFailedToActivate (L270, L294).
can_activate_Err(e) ==
    /\ m_err' = e
    /\ m_handle' = FALSE
    /\ m_res' = IF m_caller = "G241" \/ m_act_caller = "G245"
                  THEN "ActivationError" ELSE "PluginFailedToActivate"
    /\ m_pc' = IF m_caller = "G241" THEN "G242"
               ELSE IF m_act_caller = "G245" THEN "G258" ELSE "G801"
    /\ UNCHANGED <<m_op, m_caller, m_act_caller>>

can_activate_L119 ==
    /\ MainStep("L119")
    /\ IF ~main_thread
         THEN can_activate_Err("NotLoaded")
         ELSE Goto("L122")
    /\ UNCHANGED <<shared, hostvars, coordvars, tickvars>>

can_activate_L122 ==
    /\ MainStep("L122")
    /\ IF is_active(state)
         THEN can_activate_Err("AlreadyActive")
         ELSE Goto("L125")
    /\ UNCHANGED <<shared, hostvars, coordvars, tickvars>>

\* On Ok the coordinator goes on to activate (G245), and activate to L142.
can_activate_L125 ==
    /\ MainStep("L125")
    /\ IF restart_requested
         THEN can_activate_Err("RestartScheduled")
         ELSE /\ IF m_caller = "G241"
                   THEN /\ m_pc' = "G245"
                        /\ m_res' = "CanActivate"
                   ELSE /\ m_pc' = "L142"
                        /\ UNCHANGED m_res
              /\ UNCHANGED <<m_op, m_caller, m_act_caller, m_err, m_handle>>
    /\ UNCHANGED <<shared, hostvars, coordvars, tickvars>>

----------------------------------------------------------------------------
\* PluginInstanceHost::activate

\* activate returns to AudioGraph::activate_plugin_instance (G245) or to
\* on_idle (L266, L290).
activate_Return(err, h) ==
    /\ m_err' = err
    /\ m_handle' = h
    /\ m_res' = IF m_act_caller = "G245"
                  THEN (IF err = "none" THEN "Activated" ELSE "ActivationError")
                  ELSE (IF err = "none" THEN "PluginActivated"
                                        ELSE "PluginFailedToActivate")
    /\ m_pc' = IF m_act_caller = "G245" THEN "G258" ELSE "G801"
    /\ UNCHANGED <<m_op, m_caller, m_act_caller>>

activate_Err_state_Inactive == "Inactive"

\* The state stored when the plugin fails to activate (L149, L208).
activate_Err_state == "InactiveWithError"

\* L142-L163: save_state.activation_requested = true, then the plugin's
\* audio_ports_ext() and activate(), either of which may fail, and the first
\* store of the Ok arm.
activate_L142 ==
    /\ MainStep("L142")
    /\ save_activation_requested' = TRUE
    /\ \E ports_ok \in BOOLEAN, plugin_ok \in BOOLEAN :
         \/ /\ ~ports_ok /\ plugin_ok
            /\ state' = activate_Err_state
            /\ activate_Return("PluginFailedToGetAudioPortsExt", FALSE)
            /\ UNCHANGED <<audio_ports_ext, process_requested>>
         \/ /\ ports_ok /\ ~plugin_ok
            /\ audio_ports_ext' = TRUE
            /\ state' = activate_Err_state
            /\ activate_Return("PluginSpecific", FALSE)
            /\ UNCHANGED process_requested
         \/ /\ ports_ok /\ plugin_ok
            /\ audio_ports_ext' = TRUE
            /\ process_requested' = TRUE
            /\ Goto("L164")
            /\ UNCHANGED state
    /\ UNCHANGED <<restart_requested, callback_requested,
                   deactivate_requested, main_thread, remove_requested,
                   param_queues, handles, coordvars, tickvars>>

activate_L164 ==
    /\ MainStep("L164")
    /\ deactivate_requested' = FALSE
    /\ Goto("L165")
    /\ UNCHANGED <<state, restart_requested, process_requested,
                   callback_requested, hostvars, coordvars, tickvars>>

activate_Ok_state_Processing == "ActiveAndProcessing"

\* The state stored by a successful activation (L165).
activate_Ok_state == "ActiveAndSleeping"

\* L165-L205: store the state, make the parameter queues and the
\* audio-thread handle, which shares the state word and the flags.
activate_L165 ==
    /\ MainStep("L165")
    /\ state' = activate_Ok_state
    /\ handles' = TRUE
    /\ param_queues' = TRUE
    /\ activate_Return("none", TRUE)
    /\ UNCHANGED <<restart_requested, process_requested, callback_requested,
                   deactivate_requested, main_thread, remove_requested,
                   audio_ports_ext, save_activation_requested, coordvars,
                   tickvars>>

----------------------------------------------------------------------------
\* AudioGraph::activate_plugin_instance (graph/mod.rs L231-L272)

activate_plugin_instance ==
    /\ Begin("activate_plugin_instance", "L119")
    /\ m_caller' = "G241"
    /\ UNCHANGED m_act_caller
    /\ UNCHANGED <<shared, hostvars, coordvars>>

\* G242: can_activate failed, return Ok(ActivationError(e)).
activate_plugin_instance_G242 ==
    /\ MainStep("G242")
    /\ Finish
    /\ UNCHANGED <<shared, hostvars, coordvars>>

\* G245: call activate, which checks can_activate again (L138).
activate_plugin_instance_G245 ==
    /\ MainStep("G245")
    /\ m_pc' = "L119"
    /\ m_caller' = "L138"
    /\ m_act_caller' = "G245"
    /\ UNCHANGED <<m_op, m_res, m_err, m_handle>>
    /\ UNCHANGED <<shared, hostvars, coordvars, tickvars>>

\* G258: entry.audio_thread = plugin_audio_thread (None on an error).
activate_plugin_instance_G258 ==
    /\ MainStep("G258")
    /\ audio_thread' = m_handle
    /\ Finish
    /\ UNCHANGED <<shared, hostvars, in_pool, recompile_graph>>

----------------------------------------------------------------------------
\* PluginInstanceHost::schedule_deactivate and schedule_remove

schedule_deactivate ==
    /\ Begin("schedule_deactivate", "L220")
    /\ UNCHANGED <<m_caller, m_act_caller>>
    /\ UNCHANGED <<shared, hostvars, coordvars>>

\* AudioGraph::remove_plugin_instances (graph/mod.rs L298-L313) for this
\* plugin: the node is still in the abstract graph, so get_plugin_edges
\* succeeds and schedule_remove runs; delete_node then makes every later
\* request for the same id fail at get_plugin_edges.
remove_plugin_instances ==
    /\ ~remove_requested
    /\ Begin("remove_plugin_instances", "L220")
    /\ remove_requested' = TRUE
    /\ UNCHANGED <<m_caller, m_act_caller>>
    /\ UNCHANGED <<shared, main_thread, audio_ports_ext, param_queues,
                   handles, save_activation_requested, coordvars>>

\* L216-L222
schedule_deactivate_L220 ==
    /\ MainStep("L220")
    /\ save_activation_requested' = FALSE
    /\ Goto(IF is_active(state) THEN "L226" ELSE "L227")
    /\ UNCHANGED <<shared, main_thread, remove_requested, audio_ports_ext,
                   param_queues, handles, coordvars, tickvars>>

schedule_deactivate_L226 ==
    /\ MainStep("L226")
    /\ deactivate_requested' = TRUE
    /\ Goto("L227")
    /\ UNCHANGED <<state, restart_requested, process_requested,
                   callback_requested, hostvars, coordvars, tickvars>>

\* schedule_deactivate returns (and with it schedule_remove and
\* remove_plugin_instances).
schedule_deactivate_L227 ==
    /\ MainStep("L227")
    /\ Finish
    /\ UNCHANGED <<shared, hostvars, coordvars>>

----------------------------------------------------------------------------
\* PluginInstanceHost::on_idle, called from AudioGraph::on_idle (L794)

\* on_idle returns res to AudioGraph::on_idle.
on_idle_Return(res) ==
    /\ m_res' = res
    /\ m_pc' = "G801"
    /\ UNCHANGED <<m_op, m_caller, m_act_caller, m_err, m_handle>>

AudioGraph_on_idle ==
    /\ Begin("on_idle", "L242")
    /\ UNCHANGED <<m_caller, m_act_caller>>
    /\ UNCHANGED <<shared, hostvars, coordvars>>

on_idle_L242 ==
    /\ MainStep("L242")
    /\ IF ~main_thread
         THEN IF remove_requested
                THEN /\ on_idle_Return("PluginReadyToRemove")
                     /\ Log("ready_to_remove")
                ELSE /\ on_idle_Return("Ok")
                     /\ UNCHANGED tickvars
         ELSE /\ Goto("L252")
              /\ UNCHANGED tickvars
    /\ UNCHANGED <<shared, hostvars, coordvars>>

on_idle_L252 ==
    /\ MainStep("L252")
    /\ Goto(IF callback_requested THEN "L253" ELSE "L258")
    /\ UNCHANGED <<shared, hostvars, coordvars, tickvars>>

\* L253-L255: clear the flag and call the plugin's on_main_thread.
on_idle_L253 ==
    /\ MainStep("L253")
    /\ callback_requested' = FALSE
    /\ Log("callback")
    /\ Goto("L258")
    /\ UNCHANGED <<state, restart_requested, process_requested,
                   deactivate_requested, hostvars, coordvars>>

on_idle_L258 ==
    /\ MainStep("L258")
    /\ Goto(IF restart_requested /\ ~remove_requested THEN "L259" ELSE "L275")
    /\ UNCHANGED <<shared, hostvars, coordvars, tickvars>>

on_idle_L259 ==
    /\ MainStep("L259")
    /\ Goto(IF is_active(state) THEN "L262" ELSE "L263")
    /\ UNCHANGED <<shared, hostvars, coordvars, tickvars>>

on_idle_L262 ==
    /\ MainStep("L262")
    /\ deactivate_requested' = TRUE
    /\ Log("schedule_deactivate")
    /\ Goto("L275")
    /\ UNCHANGED <<state, restart_requested, process_requested,
                   callback_requested, hostvars, coordvars>>

on_idle_L263 ==
    /\ MainStep("L263")
    /\ Goto(IF restart_requested THEN "L264" ELSE "L275")
    /\ UNCHANGED <<shared, hostvars, coordvars, tickvars>>

\* L264-L266: clear restart_requested and call activate.
on_idle_L264 ==
    /\ MainStep("L264")
    /\ restart_requested' = FALSE
    /\ Log("activate")
    /\ m_pc' = "L119"
    /\ m_caller' = "L138"
    /\ m_act_caller' = "L266"
    /\ UNCHANGED <<m_op, m_res, m_err, m_handle>>
    /\ UNCHANGED <<state, process_requested, callback_requested,
                   deactivate_requested, hostvars, coordvars>>

on_idle_L275 ==
    /\ MainStep("L275")
    /\ Goto(IF deactivate_requested THEN "L276" ELSE "L303")
    /\ UNCHANGED <<shared, hostvars, coordvars, tickvars>>

on_idle_may_deactivate_when_active(s) == is_active(s)

\* The state in which on_idle deactivates the plugin (L276).
on_idle_may_deactivate(s) == s = "ActiveAndReadyToDeactivate"

on_idle_L276 ==
    /\ MainStep("L276")
    /\ Goto(IF on_idle_may_deactivate(state) THEN "L279" ELSE "L303")
    /\ UNCHANGED <<shared, hostvars, coordvars, tickvars>>

\* L279-L281: the plugin's deactivate, then the store of Inactive.
on_idle_L279 ==
    /\ MainStep("L279")
    /\ state' = "Inactive"
    /\ Log("deactivate")
    /\ Goto("L282")
    /\ UNCHANGED <<restart_requested, process_requested, callback_requested,
                   deactivate_requested, hostvars, coordvars>>

on_idle_after_deactivate_restart_check(remove) == "L258"

\* Where on_idle goes after a deactivation (L284): to the restart of the
\* plugin, or to the ready-to-remove report when it is being removed.
on_idle_after_deactivate(remove) == IF ~remove THEN "L287" ELSE "L303"

\* L282-L285
on_idle_L282 ==
    /\ MainStep("L282")
    /\ deactivate_requested' = FALSE
    /\ Goto(on_idle_after_deactivate(remove_requested))
    /\ UNCHANGED <<state, restart_requested, process_requested,
                   callback_requested, hostvars, coordvars, tickvars>>

on_idle_no_restart_after_deactivate(restart) == FALSE

\* Whether on_idle re-activates the plugin it has just deactivated (L287).
on_idle_restart_after_deactivate(restart) == restart

on_idle_L287 ==
    /\ MainStep("L287")
    /\ IF on_idle_restart_after_deactivate(restart_requested)
         THEN Goto("L288")
         ELSE on_idle_Return("PluginDeactivated")
    /\ UNCHANGED <<shared, hostvars, coordvars, tickvars>>

\* L288-L290: clear restart_requested and call activate.
on_idle_L288 ==
    /\ MainStep("L288")
    /\ restart_requested' = FALSE
    /\ Log("reactivate")
    /\ m_pc' = "L119"
    /\ m_caller' = "L138"
    /\ m_act_caller' = "L290"
    /\ UNCHANGED <<m_op, m_res, m_err, m_handle>>
    /\ UNCHANGED <<state, process_requested, callback_requested,
                   deactivate_requested, hostvars, coordvars>>

\* L303-L309
on_idle_L303 ==
    /\ MainStep("L303")
    /\ IF remove_requested /\ ~is_active(state)
         THEN /\ on_idle_Return("PluginReadyToRemove")
              /\ Log("ready_to_remove")
         ELSE /\ on_idle_Return("Ok")
              /\ UNCHANGED tickvars
    /\ UNCHANGED <<shared, hostvars, coordvars>>

\* AudioGraph::on_idle, graph/mod.rs L801-L862: the match on the result
\* of the tick.
AudioGraph_on_idle_G801 ==
    /\ MainStep("G801")
    /\ recompile_graph' = (m_res \in {"PluginDeactivated", "PluginActivated",
                                      "PluginFailedToActivate"})
    /\ audio_thread' = IF m_res = "PluginActivated" THEN m_handle
                       ELSE audio_thread
    /\ Goto("G876")
    /\ UNCHANGED <<shared, hostvars, in_pool, tickvars>>

\* The results for which AudioGraph::on_idle drops the entry (G844-G845).
plugins_to_remove(res) == res = "PluginReadyToRemove"

\* graph/mod.rs L876-L880: remove the entries that are ready to remove and
\* return recompile_graph.
AudioGraph_on_idle_G876 ==
    /\ MainStep("G876")
    /\ in_pool' = ~plugins_to_remove(m_res)
    /\ recompile_graph' = FALSE
    /\ Finish
    /\ UNCHANGED <<shared, hostvars, audio_thread>>

----------------------------------------------------------------------------
\* PluginInstanceHostAudioThread::process: one process cycle.

AudioStep(pc) ==
    /\ a_pc = pc
    /\ tick_start' = NoSnapshot
    /\ UNCHANGED <<tick_log, hostvars, coordvars, mctl>>
    /\ UNCHANGED <<graphvars, schedvars, taskvars, procvars>>

\* buffers.clear_all_outputs_unchecked(proc_info.frames), then return.
ClearAndReturn ==
    /\ cleared' = TRUE
    /\ a_pc' = "L467"

Call(c) == a_calls' = Append(a_calls, c)

\* L344-L350: the cycle starts by loading the state word.
process_L344 ==
    /\ AudioStep("idle")
    /\ handles
    /\ a_state' = state
    /\ a_start' = deactivate_requested
    /\ IF ~is_active(state)
         THEN ClearAndReturn
         ELSE /\ a_pc' = "L353"
              /\ UNCHANGED cleared
    /\ UNCHANGED <<a_status, a_calls>>
    /\ UNCHANGED shared

\* L353-L411 up to the next shared access: the load of deactivate_requested
\* and the branches on the local copy of the state.
process_L353 ==
    /\ AudioStep("L353")
    /\ IF deactivate_requested
         THEN /\ IF is_processing(a_state)
                   THEN Call("stop_processing")
                   ELSE UNCHANGED a_calls
              /\ a_pc' = "L358"
              /\ UNCHANGED cleared
         ELSE IF a_state = "ActiveWithError"
           THEN /\ ClearAndReturn
                /\ UNCHANGED a_calls
         ELSE IF a_state = "ActiveAndWaitingForQuiet"
           THEN \E audio_inputs_silent \in BOOLEAN :
                  IF audio_inputs_silent
                    THEN /\ Call("stop_processing")
                         /\ a_pc' = "L385"
                         /\ UNCHANGED cleared
                    ELSE /\ a_pc' = "L415"
                         /\ UNCHANGED <<cleared, a_calls>>
         ELSE /\ a_pc' = IF is_sleeping(a_state) THEN "L394" ELSE "L415"
              /\ UNCHANGED <<cleared, a_calls>>
    /\ UNCHANGED <<shared, a_state, a_status, a_start>>

process_released_state_Sleeping == "ActiveAndSleeping"

\* The state stored when the audio thread honours deactivate_requested.
process_released_state == "ActiveAndReadyToDeactivate"

process_L358 ==
    /\ AudioStep("L358")
    /\ state' = process_released_state
    /\ ClearAndReturn
    /\ UNCHANGED <<restart_requested, process_requested, callback_requested,
                   deactivate_requested, a_state, a_status, a_start,
                   a_calls>>

process_L385 ==
    /\ AudioStep("L385")
    /\ state' = "ActiveAndSleeping"
    /\ ClearAndReturn
    /\ UNCHANGED <<restart_requested, process_requested, callback_requested,
                   deactivate_requested, a_state, a_status, a_start,
                   a_calls>>

\* L392-L399: has_in_events is the constant true, so the sleeping plugin is
\* woken whatever the load of process_requested returns.
has_in_events == TRUE

process_L394 ==
    /\ AudioStep("L394")
    /\ IF ~process_requested /\ ~has_in_events
         THEN ClearAndReturn
         ELSE /\ a_pc' = "L401"
              /\ UNCHANGED cleared
    /\ UNCHANGED <<shared, a_state, a_status, a_start, a_calls>>

\* L401-L403: clear process_requested and call start_processing.
process_L401 ==
    /\ AudioStep("L401")
    /\ process_requested' = FALSE
    /\ Call("start_processing")
    /\ \E start_ok \in BOOLEAN : a_pc' = IF start_ok THEN "L410" ELSE "L405"
    /\ UNCHANGED <<state, restart_requested, callback_requested,
                   deactivate_requested, a_state, a_status, a_start,
                   cleared>>

process_start_failed_state_Sleeping == "ActiveAndSleeping"

\* The state stored when the plugin's start_processing fails (L405).
process_start_failed_state == "ActiveWithError"

process_L405 ==
    /\ AudioStep("L405")
    /\ state' = process_start_failed_state
    /\ ClearAndReturn
    /\ UNCHANGED <<restart_requested, process_requested, callback_requested,
                   deactivate_requested, a_state, a_status, a_start,
                   a_calls>>

process_L410 ==
    /\ AudioStep("L410")
    /\ state' = "ActiveAndProcessing"
    /\ a_pc' = "L415"
    /\ UNCHANGED <<restart_requested, process_requested, callback_requested,
                   deactivate_requested, a_state, a_status, a_start,
                   cleared, a_calls>>

\* L413-L417: the plugin's process is called if the word says processing.
process_L415 ==
    /\ AudioStep("L415")
    /\ IF is_processing(state)
         THEN /\ \E status \in ProcessStatus : a_status' = status
              /\ Call("process")
         ELSE /\ a_status' = "Sleep"
              /\ UNCHANGED a_calls
    /\ a_pc' = "L425"
    /\ UNCHANGED <<shared, a_state, a_start, cleared>>

process_status_state_Tail_as_Continue(status) ==
    CASE status = "Continue" -> "ActiveAndProcessing"
      [] status = "ContinueIfNotQuiet" -> "ActiveAndWaitingForQuiet"
      [] status = "Tail" -> "ActiveAndProcessing"

\* The state stored for each status the match at L425 stores one for; the
\* Error arm (L449-L452) only clears the outputs.
process_status_state(status) ==
    CASE status = "Continue" -> "ActiveAndProcessing"
      [] status = "ContinueIfNotQuiet" -> "ActiveAndWaitingForQuiet"
      [] status = "Tail" -> "ActiveAndWaitingForTail"

\* L425-L453
process_L425 ==
    /\ AudioStep("L425")
    /\ IF a_status \in {"Continue", "ContinueIfNotQuiet", "Tail"}
         THEN /\ state' = process_status_state(a_status)
              /\ a_pc' = "L455"
              /\ UNCHANGED <<cleared, a_calls>>
         ELSE IF a_status = "Sleep"
           THEN /\ IF is_processing(state)
                     THEN /\ Call("stop_processing")
                          /\ a_pc' = "L440"
                     ELSE /\ a_pc' = "L455"
                          /\ UNCHANGED a_calls
                /\ UNCHANGED <<state, cleared>>
         ELSE /\ cleared' = TRUE
              /\ a_pc' = "L455"
              /\ UNCHANGED <<state, a_calls>>
    /\ UNCHANGED <<restart_requested, process_requested, callback_requested,
                   deactivate_requested, a_state, a_status, a_start>>

process_L440 ==
    /\ AudioStep("L440")
    /\ a_pc' = IF deactivate_requested THEN "L441" ELSE "L443"
    /\ UNCHANGED <<shared, a_state, a_status, a_start, cleared, a_calls>>

\* L441 and L446: no clear_outputs on this path.
process_L441 ==
    /\ AudioStep("L441")
    /\ state' = process_released_state
    /\ a_pc' = "L467"
    /\ UNCHANGED <<restart_requested, process_requested, callback_requested,
                   deactivate_requested, a_state, a_status, a_start,
                   cleared, a_calls>>

process_L443 ==
    /\ AudioStep("L443")
    /\ state' = "ActiveAndSleeping"
    /\ a_pc' = "L467"
    /\ UNCHANGED <<restart_requested, process_requested, callback_requested,
                   deactivate_requested, a_state, a_status, a_start,
                   cleared, a_calls>>

\* L455-L457: cleared outputs are silent, others may or may not be.
process_L455 ==
    /\ AudioStep("L455")
    /\ IF state = "ActiveAndWaitingForTail"
         THEN \E audio_outputs_silent \in BOOLEAN :
                /\ cleared => audio_outputs_silent
                /\ IF audio_outputs_silent
                     THEN /\ Call("stop_processing")
                          /\ a_pc' = "L460"
                     ELSE /\ a_pc' = "L467"
                          /\ UNCHANGED a_calls
         ELSE /\ a_pc' = "L467"
              /\ UNCHANGED a_calls
    /\ UNCHANGED <<shared, a_state, a_status, a_start, cleared>>

process_L460 ==
    /\ AudioStep("L460")
    /\ a_pc' = IF deactivate_requested THEN "L461" ELSE "L463"
    /\ UNCHANGED <<shared, a_state, a_status, a_start, cleared, a_calls>>

process_L461 ==
    /\ AudioStep("L461")
    /\ state' = process_released_state
    /\ a_pc' = "L467"
    /\ UNCHANGED <<restart_requested, process_requested, callback_requested,
                   deactivate_requested, a_state, a_status, a_start,
                   cleared, a_calls>>

process_L463 ==
    /\ AudioStep("L463")
    /\ state' = "ActiveAndSleeping"
    /\ a_pc' = "L467"
    /\ UNCHANGED <<restart_requested, process_requested, callback_requested,
                   deactivate_requested, a_state, a_status, a_start,
                   cleared, a_calls>>

\* process returns to PluginTask::process: its locals are gone.
process_L467 ==
    /\ AudioStep("L467")
    /\ a_pc' = "idle"
    /\ a_state' = "None"
    /\ a_status' = "None"
    /\ a_start' = FALSE
    /\ cleared' = FALSE
    /\ a_calls' = <<>>
    /\ UNCHANGED shared

----------------------------------------------------------------------------
\* HostRequest: the plugin sets its request flags, from any thread.

PluginStep ==
    /\ main_thread
    /\ in_pool
    /\ tick_start' = NoSnapshot
    /\ UNCHANGED <<tick_log, hostvars, coordvars, mctl, audiovars>>
    /\ UNCHANGED <<graphvars, schedvars, taskvars, procvars>>

request_restart ==
    /\ PluginStep
    /\ ~restart_requested
    /\ restart_requested' = TRUE
    /\ UNCHANGED <<state, process_requested, callback_requested,
                   deactivate_requested>>

request_process ==
    /\ PluginStep
    /\ ~process_requested
    /\ process_requested' = TRUE
    /\ UNCHANGED <<state, restart_requested, callback_requested,
                   deactivate_requested>>

request_callback ==
    /\ PluginStep
    /\ ~callback_requested
    /\ callback_requested' = TRUE
    /\ UNCHANGED <<state, restart_requested, process_requested,
                   deactivate_requested>>

----------------------------------------------------------------------------

MainThread ==
    \/ activate_plugin_instance
    \/ can_activate_L119
    \/ can_activate_L122
    \/ can_activate_L125
    \/ activate_L142
    \/ activate_L164
    \/ activate_L165
    \/ activate_plugin_instance_G242
    \/ activate_plugin_instance_G245
    \/ activate_plugin_instance_G258
    \/ schedule_deactivate
    \/ remove_plugin_instances
    \/ schedule_deactivate_L220
    \/ schedule_deactivate_L226
    \/ schedule_deactivate_L227
    \/ AudioGraph_on_idle
    \/ on_idle_L242
    \/ on_idle_L252
    \/ on_idle_L253
    \/ on_idle_L258
    \/ on_idle_L259
    \/ on_idle_L262
    \/ on_idle_L263
    \/ on_idle_L264
    \/ on_idle_L275
    \/ on_idle_L276
    \/ on_idle_L279
    \/ on_idle_L282
    \/ on_idle_L287
    \/ on_idle_L288
    \/ on_idle_L303
    \/ AudioGraph_on_idle_G801
    \/ AudioGraph_on_idle_G876

AudioThread ==
    \/ process_L344
    \/ process_L353
    \/ process_L358
    \/ process_L385
    \/ process_L394
    \/ process_L401
    \/ process_L405
    \/ process_L410
    \/ process_L415
    \/ process_L425
    \/ process_L440
    \/ process_L441
    \/ process_L443
    \/ process_L455
    \/ process_L460
    \/ process_L461
    \/ process_L463
    \/ process_L467

Plugin ==
    \/ request_restart
    \/ request_process
    \/ request_callback

Next == MainThread \/ AudioThread \/ Plugin

Spec == Init /\ [][Next]_vars

TypeOK ==
    /\ state \in PluginState
    /\ handles = param_queues
    /\ save_activation_requested \in BOOLEAN
    /\ audio_thread => handles
    /\ m_res \in OnIdleResult \cup
                 {"none", "CanActivate", "Activated", "ActivationError"}
    /\ m_err \in ActivatePluginError \cup {"none"}

----------------------------------------------------------------------------
\* AudioGraph: the coordinator's operations on the abstract graph.  The
\* plugin hosts are seen through the results of their calls: an activation
\* succeeds or fails, a tick of a host returns one of the OnIdleResult the
\* host's state allows.  Every plugin loads.

\* An AudioGraph operation; none runs after one has panicked.
GraphStep ==
    /\ g_res # "panic"
    /\ UNCHANGED <<hostside, schedvars, taskvars, procvars>>

Edge(type, src, dst, src_stable_id, dst_stable_id) ==
    [edge_type |-> type, src_plugin_id |-> src, dst_plugin_id |-> dst,
     src_port_stable_id |-> src_stable_id, src_port_channel |-> 0,
     dst_port_stable_id |-> dst_stable_id, dst_port_channel |-> 0]

\* The edges a caller may ask for: any type, any two node refs, either
\* stable id on the source side (0 is the graph input's output port, 1 a
\* plugin's) and stable id 0, the one every input port has, on the
\* destination side.
EdgeRequests ==
    {Edge(t, a, b, i, 0) :
       t \in PortType, a \in NodeRefs, b \in NodeRefs, i \in {0, 1}}

RECURSIVE ReachFrom(_, _)
\* The nodes reached from the nodes S along the edges E.
ReachFrom(E, S) ==
    CHOOSE r \in {IF N = S THEN S ELSE ReachFrom(E, N) :
                    N \in {S \cup {e.dst[1] : e \in {x \in E : x.src[1] \in S}}}} :
      TRUE

no_cycle_check(E, src, dst) == FALSE

\* abstract_graph.connect answers Error::Cycle when the new edge would put
\* its source node downstream of its destination node.
would_cycle(E, src, dst) == src[1] \in ReachFrom(E, {dst[1]})

\* abstract_graph.connect(src, dst) on the ports P and edges E; when the
\* two ports are connected already the graph may accept or refuse
\* (exists_ok), without a change either way.
abstract_graph_connect(P, E, src, dst, exists_ok) ==
    IF src \notin P \/ dst \notin P
      THEN [res |-> "Unkown", edges |-> E]
    ELSE IF [src |-> src, dst |-> dst] \in E
      THEN [res |-> IF exists_ok THEN "Ok" ELSE "Unkown", edges |-> E]
    ELSE IF would_cycle(E, src, dst)
      THEN [res |-> "Cycle", edges |-> E]
    ELSE [res |-> "Ok", edges |-> E \cup {[src |-> src, dst |-> dst]}]

\* AudioGraph::connect_edge on the registry R, ports P and edges E.
connect_edge(R, P, E, edge, exists_ok) ==
    LET src_port_id == PortChannelID(edge.edge_type, edge.src_port_stable_id,
                                     FALSE, edge.src_port_channel)
        dst_port_id == PortChannelID(edge.edge_type, edge.dst_port_stable_id,
                                     TRUE, edge.dst_port_channel)
    IN  IF edge.src_plugin_id \notin DOMAIN R
          THEN [res |-> "SrcPluginDoesNotExist", edges |-> E]
        ELSE IF edge.dst_plugin_id \notin DOMAIN R
          THEN [res |-> "DstPluginDoesNotExist", edges |-> E]
        ELSE IF src_port_id \notin R[edge.src_plugin_id].port_channels_refs
          THEN [res |-> "SrcPortDoesNotExist", edges |-> E]
        ELSE IF dst_port_id \notin R[edge.dst_plugin_id].port_channels_refs
          THEN [res |-> "DstPortDoesNotExist", edges |-> E]
        ELSE abstract_graph_connect(P, E,
               <<edge.src_plugin_id, src_port_id>>,
               <<edge.dst_plugin_id, dst_port_id>>, exists_ok)

AudioGraph_connect_edge ==
    \E edge \in EdgeRequests :
      \E r \in {connect_edge(plugins, g_ports, g_edges, edge, exists_ok) :
                 exists_ok \in BOOLEAN} :
        /\ GraphStep
        /\ g_res' = "Ok"
        /\ g_edges' = r.edges
        /\ g_saved' = NoSaveState
        /\ UNCHANGED <<g_nodes, g_ports, g_next, plugins>>

\* The edge of the abstract graph that disconnect_edge finds for the
\* request (L400-L439).
found_ports(edge) ==
    {e \in g_edges :
       /\ edge.src_plugin_id \in g_nodes
       /\ e.src[1] = edge.src_plugin_id
       /\ e.dst[1] = edge.dst_plugin_id
       /\ e.src[2] = PortChannelID(edge.edge_type, edge.src_port_stable_id,
                                   FALSE, edge.src_port_channel)
       /\ e.dst[2] = PortChannelID(edge.edge_type, edge.dst_port_stable_id,
                                   TRUE, edge.dst_port_channel)}

AudioGraph_disconnect_edge ==
    \E edge \in EdgeRequests :
      /\ GraphStep
      /\ g_res' = "Ok"
      /\ g_edges' = g_edges \ found_ports(edge)
      /\ g_saved' = NoSaveState
      /\ UNCHANGED <<g_nodes, g_ports, g_next, plugins>>

\* update_plugin_ports (L886-L1004) for the entry of node n whose
\* port_channels_refs is refs: the ports the entry did not have are created
\* in the abstract graph and put in the map; the ports it had and still has
\* are taken out of the map and not put back; the ports it had and has no
\* more are deleted.  abstract_graph.port(..).unwrap() panics when the node
\* is not among the nodes N of the graph or already has the port.
update_plugin_ports(N, n, refs) ==
    LET created == PluginPorts \ refs
    IN  [port_channels_refs |-> created,
         created |-> {<<n, p>> : p \in created},
         removed |-> {<<n, p>> : p \in refs \ PluginPorts},
         panics |-> /\ created # {}
                    /\ \/ n \notin N
                       \/ \E p \in created : <<n, p>> \in g_ports]

\* The edges left when the ports D are deleted.
delete_ports(E, D) == {e \in E : e.src \notin D /\ e.dst \notin D}

\* The registry R with the entry of n set to e.
with_entry(R, n, e) ==
    [m \in (DOMAIN R) \cup {n} |-> IF m = n THEN e ELSE R[m]]

\* AudioGraph::activate_plugin_instance (L231-L272) for the entry of n in
\* the registry R; ok is the outcome of the plugin's activation.  The graph
\* input and output hosts have no main-thread handle (NotLoaded).  N is
\* the nodes of the abstract graph.
activate_entry(N, R, n, ok) ==
    LET e == R[n]
        u == update_plugin_ports(N, n, e.port_channels_refs)
    IN  IF n \in AudioGraph_reset_nodes \/ e.active
          THEN [res |-> "Ok", plugins |-> R,
                created |-> {}, removed |-> {}]
        ELSE IF ~ok
          THEN [res |-> "Ok",
                plugins |-> with_entry(R, n,
                  [e EXCEPT !.activation_requested = TRUE]),
                created |-> {}, removed |-> {}]
        ELSE IF u.panics
          THEN [res |-> "panic", plugins |-> R, created |-> {},
                removed |-> {}]
        ELSE [res |-> "Ok",
              plugins |-> with_entry(R, n,
                [e EXCEPT !.active = TRUE, !.activation_requested = TRUE,
                          !.port_channels_refs = u.port_channels_refs]),
              created |-> u.created, removed |-> u.removed]

AudioGraph_activate_plugin_instance ==
    \E n \in NodeRefs, ok \in BOOLEAN :
      /\ GraphStep
      /\ g_saved' = NoSaveState
      /\ IF n \notin DOMAIN plugins
           THEN /\ g_res' = "Ok"
                /\ UNCHANGED <<g_nodes, g_ports, g_edges, g_next, plugins>>
           ELSE LET r == activate_entry(g_nodes, plugins, n, ok)
                IN  /\ g_res' = r.res
                    /\ plugins' = r.plugins
                    /\ g_ports' = (g_ports \cup r.created) \ r.removed
                    /\ g_edges' = delete_ports(g_edges, r.removed)
                    /\ UNCHANGED <<g_nodes, g_next>>

\* The node refs abstract_graph.node() may return (L190): the next ref no
\* node has had since the last reset, or a ref that delete_node has released.
abstract_graph_node(N, next) ==
    {r \in PluginIds : r = next \/ (r < next /\ r \notin N)}

\* AudioGraph::add_new_plugin_instance (L177-L229): a new node, a new
\* registry entry, and the activation the save state asks for.  The insert
\* of the entry panics when the registry has an entry of the same identity
\* (L217-L219).
AudioGraph_add_new_plugin_instance ==
    \E activation_requested \in BOOLEAN, ok \in BOOLEAN,
       n \in abstract_graph_node(g_nodes, g_next) :
      LET R == with_entry(plugins, n,
                 PluginInstanceHostEntry(FALSE, FALSE, activation_requested,
                                         {}))
          r == activate_entry(g_nodes \cup {n}, R, n, ok)
      IN  /\ GraphStep
          /\ g_saved' = NoSaveState
          /\ g_nodes' = g_nodes \cup {n}
          /\ g_next' = IF n = g_next THEN n + 1 ELSE g_next
          /\ UNCHANGED g_edges
          /\ IF n \in DOMAIN plugins
               THEN /\ g_res' = "panic"
                    /\ plugins' = R
                    /\ UNCHANGED g_ports
             ELSE IF activation_requested
               THEN /\ g_res' = r.res
                    /\ plugins' = r.plugins
                    /\ g_ports' = g_ports \cup r.created
               ELSE /\ g_res' = "Ok"
                    /\ plugins' = R
                    /\ UNCHANGED g_ports

remove_ignores_nothing(n) == FALSE

\* remove_plugin_instances skips the graph-in and graph-out ids (L289-L296).
remove_ignores(n) == n = graph_in_node_id \/ n = graph_out_node_id

\* AudioGraph::remove_plugin_instances (L281-L322) for one id: the host is
\* told to remove itself (schedule_remove) and the node is deleted from the
\* abstract graph with its ports and edges; the registry entry stays until
\* a tick of on_idle reports it ready to remove.
AudioGraph_remove_plugin_instances ==
    \E n \in NodeRefs :
      /\ GraphStep
      /\ g_saved' = NoSaveState
      /\ UNCHANGED g_next
      /\ IF remove_ignores(n)
           THEN /\ g_res' = "ignored"
                /\ UNCHANGED <<g_nodes, g_ports, g_edges, plugins>>
         ELSE IF n \in g_nodes
           THEN /\ g_res' = "Ok"
                /\ plugins' =
                     IF n \in DOMAIN plugins
                       THEN [plugins EXCEPT
                               ![n].remove_requested = TRUE,
                               ![n].activation_requested = FALSE]
                       ELSE plugins
                /\ g_nodes' = g_nodes \ {n}
                /\ g_ports' = {q \in g_ports : q[1] # n}
                /\ g_edges' = {e \in g_edges : e.src[1] # n /\ e.dst[1] # n}
         ELSE /\ g_res' = "Ok"
              /\ UNCHANGED <<g_nodes, g_ports, g_edges, plugins>>

\* The results a tick of the host of entry n may return to
\* AudioGraph::on_idle: a host asked to remove itself reports
\* PluginReadyToRemove once it is inactive (an active one after the audio
\* thread has released it); any other host returns Ok, or the outcome of a
\* restart its plugin asked for.
host_on_idle_results(n) ==
    IF n \in AudioGraph_reset_nodes THEN {"Ok"}
    ELSE IF plugins[n].remove_requested
      THEN IF plugins[n].active THEN {"Ok", "PluginReadyToRemove"}
           ELSE {"PluginReadyToRemove"}
    ELSE {"Ok", "PluginActivated", "PluginFailedToActivate"}

\* AudioGraph::on_idle (L785-L882) over the whole registry.
AudioGraph_on_idle_registry ==
    \E res \in [DOMAIN plugins -> OnIdleResult] :
      LET activated == {n \in DOMAIN plugins : res[n] = "PluginActivated"}
          failed == {n \in DOMAIN plugins :
                       res[n] = "PluginFailedToActivate"}
          kept == {n \in DOMAIN plugins : res[n] # "PluginReadyToRemove"}
          u(n) == update_plugin_ports(g_nodes, n,
                                      plugins[n].port_channels_refs)
      IN  /\ \A n \in DOMAIN plugins : res[n] \in host_on_idle_results(n)
          /\ GraphStep
          /\ g_saved' = NoSaveState
          /\ UNCHANGED <<g_nodes, g_next>>
          /\ IF \E n \in activated : u(n).panics
               THEN /\ g_res' = "panic"
                    /\ UNCHANGED <<g_ports, g_edges, plugins>>
               ELSE /\ g_res' = "Ok"
                    /\ g_ports' = g_ports \cup
                         UNION {u(n).created : n \in activated}
                    /\ UNCHANGED g_edges
                    /\ plugins' =
                         [n \in kept |->
                            IF n \in activated
                              THEN [plugins[n] EXCEPT
                                      !.active = TRUE,
                                      !.activation_requested = TRUE,
                                      !.port_channels_refs =
                                         u(n).port_channels_refs]
                            ELSE IF n \in failed
                              THEN [plugins[n] EXCEPT
                                      !.active = FALSE,
                                      !.activation_requested = TRUE]
                            ELSE plugins[n]]

RECURSIVE orders_of(_)
\* The sequences that list every element of S once.
orders_of(S) ==
    IF S = {} THEN {<<>>}
    ELSE UNION {{<<x>> \o o : o \in orders_of(S \ {x})} : x \in S}

\* The orders in which the registry (a map keyed by plugin id) may hand out
\* its entries.
iteration_orders(R) == orders_of(DOMAIN R)

\* AudioGraph::collect_save_state (L501-L549) when the registry is iterated
\* in the order `order`: an entry's index is its position in the iteration
\* (from 0), the graph-in and graph-out entries have no plugin record, and
\* node_edges(..).unwrap() panics on an entry whose node has been deleted.
\* `origin` is not part of the save state: it names the node a record was
\* made from.
collect_save_state(order) ==
    LET index(n) == (CHOOSE i \in 1..Len(order) : order[i] = n) - 1
        is_plugin(n) == n \notin AudioGraph_reset_nodes
        ids == SelectSeq(order, is_plugin)
    IN  [plugins |->
           [i \in 1..Len(ids) |->
              [origin |-> ids[i],
               activation_requested |->
                 plugins[ids[i]].activation_requested]],
         edges |->
           {[edge_type |-> e.src[2].port_type,
             src_plugin_i |-> index(e.src[1]),
             dst_plugin_i |-> index(e.dst[1]),
             src_port_stable_id |-> e.src[2].port_stable_id,
             src_port_channel |-> e.src[2].port_channel,
             dst_port_stable_id |-> e.dst[2].port_stable_id,
             dst_port_channel |-> e.dst[2].port_channel] : e \in g_edges},
         panicked |-> \E n \in DOMAIN plugins : n \notin g_nodes]

\* The plugin id restore_from_save_state takes for a saved index
\* (L706-L720): 0 is graph-in, 1 is graph-out, i >= 2 is plugin_results[i-2],
\* whose node ref is i in the graph rebuilt by reset.
restored_plugin_id(i) ==
    IF i = 0 THEN graph_in_node_id
    ELSE IF i = 1 THEN graph_out_node_id
    ELSE i

RECURSIVE restore_edges(_, _, _, _)
\* restore_from_save_state L693-L735: connect_edge for every saved edge
\* whose indices are in range; errors are logged and skipped.
restore_edges(R, P, E, saved_edges) ==
    IF saved_edges = {} THEN E
    ELSE LET s == CHOOSE x \in saved_edges : TRUE
             in_range == /\ s.src_plugin_i < Cardinality(DOMAIN R)
                         /\ s.dst_plugin_i < Cardinality(DOMAIN R)
             edge == [edge_type |-> s.edge_type,
                      src_plugin_id |-> restored_plugin_id(s.src_plugin_i),
                      dst_plugin_id |-> restored_plugin_id(s.dst_plugin_i),
                      src_port_stable_id |-> s.src_port_stable_id,
                      src_port_channel |-> s.src_port_channel,
                      dst_port_stable_id |-> s.dst_port_stable_id,
                      dst_port_channel |-> s.dst_port_channel]
             E2 == IF in_range THEN connect_edge(R, P, E, edge, TRUE).edges
                   ELSE E
         IN  CHOOSE r \in {restore_edges(R, P, x, saved_edges \ {s}) :
                             x \in {E2}} : TRUE

\* AudioGraph::restore_from_save_state (L679-L753) applied to the save state
\* collect_save_state returns: reset, then every saved plugin is added (and
\* activated when its record asks for it, ok[i] being the outcome), then
\* the saved edges are connected.  The store of the empty schedule that
\* reset makes (L583-L584) is a set_new_schedule like those of compile; the
\* cell is followed under SchedSpec and left as it is here.
AudioGraph_restore_from_save_state ==
    \E order \in iteration_orders(plugins) :
    \E saved \in {collect_save_state(order)} :
    \E ok \in {f \in [1..Len(saved.plugins) -> BOOLEAN] :
                \A i \in 1..Len(saved.plugins) :
                  ~saved.plugins[i].activation_requested => f[i]} :
    \E N \in {Len(saved.plugins)} :
    \E activated \in {{n \in 2..(N + 1) :
                        saved.plugins[n - 1].activation_requested
                          /\ ok[n - 1]}} :
    \E R \in {[n \in 0..(N + 1) |->
                 IF n \in AudioGraph_reset_nodes
                   THEN AudioGraph_reset_plugins[n]
                   ELSE PluginInstanceHostEntry(
                          n \in activated, FALSE,
                          saved.plugins[n - 1].activation_requested,
                          IF n \in activated THEN PluginPorts ELSE {})]} :
    \E P \in {AudioGraph_reset_ports \cup
                {<<n, q>> : n \in activated, q \in PluginPorts}} :
      /\ GraphStep
      /\ g_saved' = [restored |-> TRUE, plugins |-> saved.plugins,
                      panicked |-> saved.panicked]
      /\ IF saved.panicked
           THEN /\ g_res' = "panic"
                /\ UNCHANGED <<g_nodes, g_ports, g_edges, g_next, plugins>>
           ELSE /\ g_res' = "Ok"
                /\ g_nodes' = 0..(N + 1)
                /\ g_next' = N + 2
                /\ plugins' = R
                /\ g_ports' = P
                /\ g_edges' = restore_edges(R, P, {}, saved.edges)

----------------------------------------------------------------------------

GraphInit ==
    PluginInstanceHost_new /\ main_thread /\ AudioGraph_new
      /\ SharedSchedule_new

GraphNext ==
    \/ AudioGraph_add_new_plugin_instance
    \/ AudioGraph_activate_plugin_instance
    \/ AudioGraph_remove_plugin_instances
    \/ AudioGraph_connect_edge
    \/ AudioGraph_disconnect_edge
    \/ AudioGraph_on_idle_registry
    \/ AudioGraph_restore_from_save_state

GraphSpec == GraphInit /\ [][GraphNext]_vars

----------------------------------------------------------------------------
\* The schedule cell: AudioGraph::compile on the main thread and
\* SharedSchedule::process_interleaved on the audio thread.  A step is one
\* access to the cell or one task.

SchedStep == UNCHANGED <<hostside, graphvars, taskvars, procvars>>

\* The task lists the compiler may put together before verification.
Candidates == UNION {[1..n -> Tasks] : n \in 0..MaxTasks}

verify_accepts_all(tasks) == TRUE

appears_twice_never(buffers) == FALSE

\* A buffer is at two places of a buffer list.
appears_twice(buffers) ==
    \E i, j \in 1..Len(buffers) : i # j /\ buffers[i] = buffers[j]

\* Verifier: no buffer appears twice among the inputs or twice among the
\* outputs of a task (VerifyScheduleError::BufferAppearsTwiceInSameTask).
verify_buffers(tasks) ==
    \A i \in 1..Len(tasks) :
      /\ ~appears_twice(tasks[i].audio_in)
      /\ ~appears_twice(tasks[i].audio_out)

\* Verifier: no plugin instance appears in two Plugin tasks of a schedule
\* (VerifyScheduleError::PluginInstanceAppearsTwiceInSchedule).
verify(tasks) ==
    \A i, j \in 1..Len(tasks) :
      (/\ tasks[i].kind = "Plugin"
       /\ tasks[j].kind = "Plugin"
       /\ tasks[i].plugin = tasks[j].plugin) => i = j

\* compiler::compile_graph: Ok with the verified task list, or a
\* GraphCompilerError (VerifierError, UnexpectedError).
\* A VerifierError holds the error of the first check that failed; the
\* snapshots it carries for the log (error.rs L85-L87) are left out.
compile_graph(candidate, unexpected) ==
    IF unexpected
      THEN [res |-> "UnexpectedError", err |-> "none", tasks |-> <<>>]
    ELSE IF ~verify_buffers(candidate)
      THEN [res |-> "VerifierError", err |-> "BufferAppearsTwiceInSameTask",
            tasks |-> <<>>]
    ELSE IF ~verify(candidate)
      THEN [res |-> "VerifierError",
            err |-> "PluginInstanceAppearsTwiceInSchedule",
            tasks |-> <<>>]
    ELSE [res |-> "Ok", err |-> "none", tasks |-> candidate]

compile_Err_keeps_live(live, id) == live

\* compile on an error: set_new_schedule(Schedule::empty(..)) (L777-L781).
compile_Err_schedule(live, id) == Schedule_empty(id)

\* AudioGraph::compile (L759-L783) with SharedSchedule::set_new_schedule
\* (shared_schedule.rs L59-L61), one store to the cell.
AudioGraph_compile ==
    /\ sched_count < MaxSchedules
    /\ \E r \in {compile_graph(candidate, FALSE) : candidate \in Candidates}
                 \cup {compile_graph(<<>>, TRUE)} :
        /\ SchedStep
        /\ sched_count' = sched_count + 1
        /\ c_res' = r.res
        /\ c_err' = r.err
        /\ c_out' = r.tasks
        /\ sched_cell' =
             IF r.res = "Ok" THEN Schedule(sched_count + 1, r.tasks)
             ELSE compile_Err_schedule(sched_cell, sched_count + 1)
        /\ UNCHANGED <<ps_pc, ps_seen, ps_sched, ps_i, ps_ran>>

\* The audio callback enters SharedSchedule::process_interleaved.
process_interleaved_call ==
    /\ ps_pc = "idle"
    /\ SchedStep
    /\ ps_pc' = "L69"
    /\ ps_seen' = sched_count
    /\ ps_ran' = <<>>
    /\ ps_i' = 1
    /\ UNCHANGED <<sched_cell, sched_count, c_res, c_err, c_out, ps_sched>>

\* shared_schedule.rs L69: let latest_schedule = self.schedule.get().
process_interleaved_L69 ==
    /\ ps_pc = "L69"
    /\ SchedStep
    /\ ps_sched' = sched_cell
    /\ ps_pc' = "L84"
    /\ UNCHANGED <<sched_cell, sched_count, c_res, c_err, c_out, ps_seen, ps_i,
                   ps_ran>>

running_schedule_reloaded(latest_schedule, cell) == cell

\* The schedule whose tasks the call runs: the one it borrowed at L71.
running_schedule(latest_schedule, cell) == latest_schedule

\* shared_schedule.rs L84, schedule.process_interleaved: the next task of
\* the schedule (Task::process, task.rs L87-L96), or the return after the
\* last.
process_interleaved_L84 ==
    \E schedule \in {running_schedule(ps_sched, sched_cell)} :
      /\ ps_pc = "L84"
      /\ SchedStep
      /\ UNCHANGED <<sched_cell, sched_count, c_res, c_err, c_out, ps_seen,
                     ps_sched>>
      /\ IF ps_i <= Len(schedule.tasks)
           THEN /\ ps_ran' = Append(ps_ran, [schedule |-> schedule.id,
                                             task |-> schedule.tasks[ps_i]])
                /\ ps_i' = ps_i + 1
                /\ UNCHANGED ps_pc
           ELSE /\ ps_pc' = "idle"
                /\ UNCHANGED <<ps_i, ps_ran>>

SchedInit == PluginInstanceHost_new /\ main_thread /\ AudioGraph_new
               /\ SharedSchedule_new

SchedNext ==
    \/ AudioGraph_compile
    \/ process_interleaved_call
    \/ process_interleaved_L69
    \/ process_interleaved_L84

SchedSpec == SchedInit /\ [][SchedNext]_vars

----------------------------------------------------------------------------
\* AudioGraph::reset (graph/mod.rs L551-L677) on a graph with plugins, edges
\* and a compiled schedule.

reset_keeps_schedule(live, id) == live

\* reset L583-L584: set_new_schedule(Schedule::empty(..)).
reset_schedule(live, id) == Schedule_empty(id)

\* Whether the wait of L571-L575 may end on the timeout: a plugin that was
\* active when it was asked to remove itself is ready only once the audio
\* thread has released it; an inactive one is ready at the first tick.
reset_may_time_out ==
    \E n \in DOMAIN plugins :
      n \notin AudioGraph_reset_nodes /\ plugins[n].active

\* AudioGraph::reset: schedule_remove on every plugin, the wait for the
\* registry to shrink to the two graph entries, which ends when they are
\* all gone or on the timeout (logged at L577-L579), then the store of the
\* empty schedule, the cleared registry and the new abstract graph with
\* the graph-in and graph-out nodes, their ports and their entries.  The
\* ticks of the wait remove entries and recompile nothing.
AudioGraph_reset ==
    /\ g_res # "panic"
    /\ sched_count < MaxSchedules
    /\ \E timed_out \in IF reset_may_time_out THEN BOOLEAN ELSE {FALSE} :
         g_res' = IF timed_out THEN "timed out" ELSE "Ok"
    /\ sched_cell' = reset_schedule(sched_cell, sched_count + 1)
    /\ sched_count' = sched_count + 1
    /\ plugins' = AudioGraph_reset_plugins
    /\ g_nodes' = AudioGraph_reset_nodes
    /\ g_ports' = AudioGraph_reset_ports
    /\ g_edges' = {}
    /\ g_next' = 2
    /\ g_saved' = NoSaveState
    /\ UNCHANGED <<c_res, c_err, c_out, ps_pc, ps_seen, ps_sched, ps_i, ps_ran>>
    /\ UNCHANGED <<hostside, taskvars, procvars>>

ResetInit ==
    PluginInstanceHost_new /\ main_thread /\ AudioGraph_new
      /\ SharedSchedule_new

ResetNext ==
    \/ AudioGraph_add_new_plugin_instance
    \/ AudioGraph_connect_edge
    \/ AudioGraph_compile
    \/ AudioGraph_reset

ResetSpec == ResetInit /\ [][ResetNext]_vars

----------------------------------------------------------------------------
\* One cycle of the audio thread over the buffers of a schedule in which a
\* deactivated plugin sits in line between graph-in and graph-out:
\* Schedule::process_interleaved copies the interleaved input to the
\* graph-in buffers, runs the task and copies the graph-out buffers to the
\* interleaved output.

TaskStep == UNCHANGED <<hostside, graphvars, schedvars, procvars>>

\* proc_info.frames of a call whose input slice is audio_in.
proc_frames(audio_in) == Len(audio_in) \div MaxChannels

\* The audio callback calls process_interleaved with an input slice of
\* whole frames and an output slice of the same length; the schedule is
\* the one compiled for the layout of the plugin.
TaskCall ==
    /\ t_pc = "idle"
    /\ TaskStep
    /\ \E frames \in 0..MaxFrames, n_in, n_out \in 0..MaxChannels :
         /\ t_in' \in [1..(frames * MaxChannels) -> Samples]
         /\ t_out' = [i \in 1..(frames * MaxChannels) |-> 0]
         /\ t_task' = DeactivatedPluginTask(n_in, n_out)
    /\ t_pc' = "in"
    /\ UNCHANGED t_buf

\* Schedule::process_interleaved, first half: channel c of frame f of the
\* input goes to frame f of the graph-in buffer of channel c.
Schedule_deinterleave ==
    /\ t_pc = "in"
    /\ TaskStep
    /\ t_buf' =
         [b \in DOMAIN t_buf |->
            [f \in 1..MaxFrames |->
               IF /\ f <= proc_frames(t_in)
                  /\ \E c \in 1..MaxChannels : InBuffer(c) = b
               THEN t_in[(f - 1) * MaxChannels + b + 1]
               ELSE t_buf[b][f]]]
    /\ t_pc' = "task"
    /\ UNCHANGED <<t_task, t_in, t_out>>

copy_nothing(out_buf, in_buf, frames) == out_buf

\* out_buf.copy_from_slice(in_buf) on the slices of the first `frames`
\* frames (task.rs L151-L154).
copy_from_slice(out_buf, in_buf, frames) ==
    [f \in 1..MaxFrames |-> IF f <= frames THEN in_buf[f] ELSE out_buf[f]]

\* out_buf.fill(0.0) on the slice of the first `frames` frames (L159-L161).
fill_zero(out_buf, frames) ==
    [f \in 1..MaxFrames |-> IF f <= frames THEN 0 ELSE out_buf[f]]

\* The loop over audio_through (L150-L155), pair after pair.
RECURSIVE pass_through(_, _, _)
pass_through(buf, pairs, frames) ==
    IF pairs = <<>> THEN buf
    ELSE pass_through(
           [buf EXCEPT ![pairs[1][2]] =
              copy_from_slice(buf[pairs[1][2]], buf[pairs[1][1]], frames)],
           Tail(pairs), frames)

\* DeactivatedPluginTask::process (task.rs L141-L164).
DeactivatedPluginTask_process ==
    /\ t_pc = "task"
    /\ TaskStep
    /\ \E through \in {pass_through(t_buf, t_task.audio_through,
                                     proc_frames(t_in))} :
         t_buf' =
           [b \in DOMAIN t_buf |->
              IF \E i \in DOMAIN t_task.extra_audio_out :
                   t_task.extra_audio_out[i] = b
              THEN fill_zero(through[b], proc_frames(t_in))
              ELSE through[b]]
    /\ t_pc' = "out"
    /\ UNCHANGED <<t_task, t_in, t_out>>

\* Schedule::process_interleaved, second half: frame f of the buffer of
\* graph-out channel c, which is the plugin's output channel c, goes to
\* channel c of frame f of the output; a graph-out channel the plugin has
\* no output for gets silence.
Schedule_interleave ==
    /\ t_pc = "out"
    /\ TaskStep
    /\ t_out' =
         [i \in DOMAIN t_out |->
            LET c == ((i - 1) % MaxChannels) + 1
                f == ((i - 1) \div MaxChannels) + 1
                n_out == Len(t_task.audio_through)
                           + Len(t_task.extra_audio_out)
            IN  IF c <= n_out THEN t_buf[OutBuffer(c)][f] ELSE 0]
    /\ t_pc' = "idle"
    /\ UNCHANGED <<t_task, t_in, t_buf>>

TaskInit == PluginInstanceHost_new /\ main_thread /\ AudioGraph_new
              /\ SharedSchedule_new

TaskNext ==
    \/ TaskCall
    \/ Schedule_deinterleave
    \/ DeactivatedPluginTask_process
    \/ Schedule_interleave

TaskSpec == TaskInit /\ [][TaskNext]_vars

----------------------------------------------------------------------------
\* PluginHostProcThread (plugin_host/process_thread.rs): the audio-thread
\* half of the plugin host that takes event buffers.  A call of process is
\* one step; the main thread acts on the channel between calls.

ProcStep == UNCHANGED <<hostside, graphvars, schedvars, taskvars>>

\* The main thread sets the value of the parameter in the main-to-audio
\* queue; a value that was not consumed yet is replaced.
Main_set_param ==
    /\ h_exists
    /\ ProcStep
    /\ h_to_audio' \in 1..MaxValue
    /\ UNCHANGED <<h_exists, h_active, h_start, h_pstate, h_plugin, h_to_main,
                   h_param_out, h_note_out, h_cycle>>

\* The main thread asks the audio thread to drop the plugin.
Main_schedule_deactivate ==
    /\ h_exists
    /\ ProcStep
    /\ h_active = "Active"
    /\ h_active' = "WaitingToDrop"
    /\ UNCHANGED <<h_exists, h_start, h_pstate, h_plugin, h_to_audio,
                   h_to_main, h_param_out, h_note_out, h_cycle>>

\* The plugin's request_process reaches the channel.
Main_request_process ==
    /\ h_exists
    /\ ProcStep
    /\ h_start' = TRUE
    /\ UNCHANGED <<h_exists, h_active, h_pstate, h_plugin, h_to_audio,
                   h_to_main, h_param_out, h_note_out, h_cycle>>

\* The main thread's on_idle drains the audio-to-main queue: it reads the
\* value the queue holds and leaves the queue empty.
Main_on_idle ==
    /\ ProcStep
    /\ h_to_main' = 0
    /\ UNCHANGED <<h_exists, h_active, h_start, h_pstate, h_plugin,
                   h_to_audio, h_param_out, h_note_out, h_cycle>>

clear_nothing(buffer) == buffer

\* buffer.truncate() of clear_before_process (event_io_buffers.rs
\* L26-L34).
clear_before_process(buffer) == <<>>

\* Whether the plugin is processing after the calls, when it was
\* `processing` before them.
RECURSIVE plugin_after(_, _)
plugin_after(calls, processing) ==
    IF calls = <<>> THEN processing
    ELSE plugin_after(Tail(calls),
                      IF calls[1] = "start_processing" THEN TRUE
                      ELSE IF calls[1] = "stop_processing" THEN FALSE
                      ELSE processing)

put_to_sleep_with_notes(pstate, has_note_in_event, silent) ==
    pstate = Started("ContinueIfNotQuiet") /\ silent

\* The test of L104-L106.
put_to_sleep(pstate, has_note_in_event, silent) ==
    /\ pstate = Started("ContinueIfNotQuiet")
    /\ ~has_note_in_event
    /\ silent

\* PluginHostProcThread::process (L51-L194) as a function of what the
\* cycle is handed: whether a note event is in the input buffers, whether
\* the audio inputs are silent, and what the plugin answers to
\* start_processing and to process.
process(note_in, silent, start_ok, status, emits) ==
    LET \* L70-L75
        pstate == IF h_start /\ h_pstate.tag # "Started"
                    THEN WaitingForStart ELSE h_pstate
        \* L85-L96
        has_param_in_event == h_to_audio # 0
        param_flush == IF has_param_in_event THEN <<"param_flush">> ELSE <<>>
        entry == [pstate |-> h_pstate, active |-> h_active,
                  start |-> h_start, to_audio |-> h_to_audio,
                  to_main |-> h_to_main,
                  param_out |-> clear_before_process(h_param_out),
                  note_out |-> clear_before_process(h_note_out),
                  note_in |-> FALSE, silent |-> FALSE,
                  calls |-> <<>>, passed |-> 0, emitted |-> NoEvents,
                  outputs_cleared |-> TRUE]
        drained == [entry EXCEPT !.pstate = pstate, !.start = FALSE,
                                 !.to_audio = 0, !.note_in = note_in,
                                 !.silent = silent]
        starts == pstate.tag \in {"Stopped", "WaitingForStart"}
    IN  IF h_active = "WaitingToDrop"
          THEN \* L63-L69
               [entry EXCEPT !.calls = IF h_pstate.tag = "Started"
                                         THEN <<"stop_processing">> ELSE <<>>]
        ELSE IF pstate = Errored
          THEN \* L78-L81
               [entry EXCEPT !.start = FALSE]
        ELSE IF put_to_sleep(pstate, note_in, silent)
          THEN \* L104-L119
               [drained EXCEPT !.pstate = Stopped,
                               !.calls = <<"stop_processing">> \o param_flush,
                               !.passed = h_to_audio]
        ELSE IF pstate = Stopped /\ ~note_in
          THEN \* L124-L135
               [drained EXCEPT !.calls = param_flush, !.passed = h_to_audio]
        ELSE IF starts /\ ~start_ok
          THEN \* L137-L147
               [drained EXCEPT !.pstate = Errored,
                               !.calls = <<"start_processing_err">>
                                           \o param_flush,
                               !.passed = h_to_audio]
        ELSE \* L149-L193
             [drained EXCEPT
                !.active = IF starts THEN "Active" ELSE h_active,
                !.calls = (IF starts THEN <<"start_processing">> ELSE <<>>)
                            \o <<"process">>
                            \o (IF status = "Sleep"
                                  THEN <<"stop_processing">> ELSE <<>>),
                !.passed = h_to_audio,
                !.emitted = emits,
                !.param_out = IF emits.param # 0
                                THEN Append(@, emits.param) ELSE @,
                !.note_out = IF emits.note THEN Append(@, "note") ELSE @,
                !.to_main = IF emits.param # 0 THEN emits.param ELSE @,
                !.outputs_cleared = (status = "Error"),
                !.pstate = IF status = "Sleep" THEN Stopped
                           ELSE IF status = "Error" THEN Errored
                           ELSE Started(status)]

\* The schedule runs the task of the plugin: one call of process.
PluginHostProcThread_process ==
    /\ h_exists
    /\ ProcStep
    /\ \E r \in UNION {{process(note_in, silent, start_ok, status, emits) :
                            note_in \in BOOLEAN,
                            silent \in AudioInputsSilent(h_pstate),
                            start_ok \in BOOLEAN,
                            emits \in ProcessOutputs(status)} :
                          status \in ProcessStatus} :
           /\ h_pstate' = r.pstate
           /\ h_active' = r.active
           /\ h_start' = r.start
           /\ h_to_audio' = r.to_audio
           /\ h_to_main' = r.to_main
           /\ h_param_out' = r.param_out
           /\ h_note_out' = r.note_out
           /\ h_plugin' = plugin_after(r.calls, h_plugin)
           /\ h_cycle' =
                [op |-> "process", n |-> 1 - h_cycle.n,
                 note_in |-> r.note_in,
                 silent |-> r.silent, calls |-> r.calls,
                 passed |-> r.passed, emitted |-> r.emitted,
                 outputs_cleared |-> r.outputs_cleared]
    /\ UNCHANGED h_exists

\* Drop for PluginHostProcThread (L197-L205), once the main thread has
\* asked for the drop and the schedule that held the task is gone.
PluginHostProcThread_drop ==
    /\ h_exists
    /\ ProcStep
    /\ h_active = "WaitingToDrop"
    /\ \E calls \in {IF h_pstate.tag = "Started"
                        THEN <<"stop_processing">> ELSE <<>>} :
         /\ h_plugin' = plugin_after(calls, h_plugin)
         /\ h_cycle' = [NoCycle EXCEPT !.op = "drop", !.n = 1 - h_cycle.n,
                                       !.calls = calls]
    /\ h_active' = "DroppedAndReadyToDeactivate"
    /\ h_exists' = FALSE
    /\ UNCHANGED <<h_start, h_pstate, h_to_audio, h_to_main, h_param_out,
                   h_note_out>>

ProcInit == PluginInstanceHost_new /\ main_thread /\ AudioGraph_new
              /\ SharedSchedule_new

ProcNext ==
    \/ Main_set_param
    \/ Main_schedule_deactivate
    \/ Main_request_process
    \/ Main_on_idle
    \/ PluginHostProcThread_process
    \/ PluginHostProcThread_drop

ProcSpec == ProcInit /\ [][ProcNext]_vars

----------------------------------------------------------------------------
\* Properties of the plugin lifecycle

ActiveNotReady ==
    {"ActiveAndSleeping", "ActiveAndProcessing", "ActiveAndWaitingForQuiet",
     "ActiveAndWaitingForTail", "ActiveWithError"}

InactiveStates == {"Inactive", "InactiveWithError"}

\* The main-thread operation in progress has run without any step of the
\* audio thread or of the plugin since it started.
Alone == tick_start # NoSnapshot

\* The audio thread's process returns in this step.
CycleEnds == a_pc # "L467" /\ a_pc' = "L467"

\* C1: no step takes the state word from ActiveAndSleeping,
\* ActiveAndProcessing, ActiveAndWaitingForQuiet, ActiveAndWaitingForTail or
\* ActiveWithError directly to Inactive or InactiveWithError; an active
\* plugin becomes inactive only from ActiveAndReadyToDeactivate.
C1_NoSkipOfReadyToDeactivate ==
    [][(state \in ActiveNotReady) => (state' \notin InactiveStates)]_vars

\* on_idle has just deactivated the plugin (L279-L281).
C1_Witness ==
    /\ m_pc = "L282"
    /\ state = "Inactive"
    /\ tick_log # <<>>
    /\ tick_log[Len(tick_log)] = "deactivate"

\* C2 as claimed: when AudioGraph::on_idle drops the entry the tick's result
\* is PluginReadyToRemove and the state word is not active.
C2_DroppedOnlyWhenInactive ==
    [][(in_pool /\ ~in_pool') =>
         (m_res = "PluginReadyToRemove" /\ ~is_active(state))]_vars

\* C3: schedule_deactivate on an active plugin sets deactivate_requested and
\* does not write the state word, and a process cycle that starts with the
\* flag set in any of the five active states ends with
\* state = ActiveAndReadyToDeactivate.
C3_DeactivateRequestHonoured ==
    [][/\ (m_op \in {"schedule_deactivate", "remove_plugin_instances"}
             /\ m_pc \in {"L220", "L226"} /\ m_pc' # m_pc)
          => (state' = state /\ (m_pc = "L226" => deactivate_requested'))
       /\ (CycleEnds /\ a_start' /\ a_state' \in ActiveNotReady)
          => state' = "ActiveAndReadyToDeactivate"]_vars

\* A cycle that started in ActiveAndProcessing with the flag set has ended.
C3_Witness ==
    /\ a_pc = "L467"
    /\ a_start
    /\ a_state = "ActiveAndProcessing"
    /\ state = "ActiveAndReadyToDeactivate"
    /\ a_calls = <<"stop_processing">>

\* C4 as claimed: only the main thread's successful activate (L165) takes the
\* state word out of Inactive/InactiveWithError, and the audio thread never
\* stores over a state the main thread has written.
C4_AudioNeverOverwritesMain ==
    [][(state \in InactiveStates /\ state' \notin InactiveStates)
         => (m_pc = "L165" /\ state' = "ActiveAndSleeping")]_vars

\* C5 as claimed: can_activate returns Ok exactly when the state is
\* Inactive, restart_requested is clear and the main-thread handle is there.
C5_OkIffInactive ==
    (Alone /\ m_caller = "G241" /\ m_pc \in {"G242", "G245"})
    => ((m_pc = "G245") <=>
          (main_thread /\ tick_start.state = "Inactive"
             /\ ~tick_start.restart))

\* C5 amended: can_activate returns Ok exactly when the state is Inactive or
\* InactiveWithError, restart_requested is clear and the main-thread handle
\* is there; otherwise it fails with NotLoaded, else AlreadyActive, else
\* RestartScheduled; and it leaves the shared state as it found it.
C5_OkIffNotActive ==
    (Alone /\ m_caller = "G241" /\ m_pc \in {"G242", "G245"})
    => /\ (m_pc = "G245") <=>
            (main_thread /\ tick_start.state \in InactiveStates
               /\ ~tick_start.restart)
       /\ m_pc = "G242" =>
            m_err = IF ~main_thread THEN "NotLoaded"
                    ELSE IF tick_start.state \notin InactiveStates
                      THEN "AlreadyActive"
                    ELSE "RestartScheduled"
       /\ Snapshot = tick_start

\* can_activate has returned Ok on a plugin whose last activation failed.
C5_Witness ==
    /\ Alone
    /\ m_caller = "G241"
    /\ m_pc = "G245"
    /\ tick_start.state = "InactiveWithError"

\* C6: when activate returns Ok the state is ActiveAndSleeping,
\* deactivate_requested is clear, process_requested is set and the
\* audio-thread handle and the port layout are returned; when its
\* can_activate fails, activate returns without changing any state.
C6_ActivateOk ==
    [][/\ (m_pc = "L165" /\ m_pc' # "L165")
          => /\ state' = "ActiveAndSleeping"
             /\ ~deactivate_requested'
             /\ process_requested'
             /\ m_handle' /\ m_err' = "none"
             /\ audio_ports_ext'
             /\ param_queues'
       /\ (m_caller = "L138" /\ m_pc \in {"L119", "L122", "L125"}
             /\ m_pc' \in {"G258", "G801"})
          => /\ m_err' \in {"NotLoaded", "AlreadyActive", "RestartScheduled"}
             /\ ~m_handle'
             /\ UNCHANGED <<shared, hostvars>>]_vars

\* activate has returned Ok to activate_plugin_instance.
C6_Witness ==
    /\ m_pc = "G258"
    /\ m_res = "Activated"
    /\ m_handle
    /\ Alone
    /\ state = "ActiveAndSleeping"

\* C7: when the plugin's activate, or the read of its audio-port layout,
\* fails, activate returns PluginSpecific or PluginFailedToGetAudioPortsExt
\* with the state at InactiveWithError, no audio-thread handle and no new
\* parameter queues.
C7_ActivateFailure ==
    [][(m_pc = "L142" /\ m_pc' # "L142" /\ m_pc' # "L164")
         => /\ state' = "InactiveWithError"
            /\ m_err' \in {"PluginSpecific", "PluginFailedToGetAudioPortsExt"}
            /\ m_res' \in {"ActivationError", "PluginFailedToActivate"}
            /\ ~m_handle'
            /\ param_queues' = param_queues
            /\ handles' = handles]_vars

\* The plugin's activate has failed on a plugin never activated before.
C7_Witness ==
    /\ m_pc = "G258"
    /\ m_err = "PluginSpecific"
    /\ Alone
    /\ state = "InactiveWithError"
    /\ ~param_queues

\* The steps of an on_idle tick as the claim orders them: callback request,
\* deactivate, restart, ready-to-remove report.
ClaimedRank(e) ==
    CASE e = "callback" -> 1
      [] e = "deactivate" -> 2
      [] e \in {"schedule_deactivate", "activate", "reactivate"} -> 3
      [] e = "ready_to_remove" -> 4

\* C8 as claimed: within a tick the callback request comes first, then the
\* deactivation, then the restart, then the ready-to-remove report; a restart
\* request is acted on only after the deactivation step of that tick.
C8_RestartOnlyAfterDeactivate ==
    \A i \in 1..Len(tick_log) :
      /\ \A j \in 1..Len(tick_log) :
           i < j => ClaimedRank(tick_log[i]) <= ClaimedRank(tick_log[j])
      /\ ClaimedRank(tick_log[i]) = 3
           => \E j \in 1..(i - 1) : tick_log[j] = "deactivate"

\* The steps of an on_idle tick in the order of the code: callback request
\* (L252), first half of the restart (L258: schedule the deactivate, or
\* activate an inactive plugin), deactivate (L275), re-activation after the
\* deactivation (L287), ready-to-remove report (L303).
CodeRank(e) ==
    CASE e = "callback" -> 1
      [] e \in {"schedule_deactivate", "activate"} -> 2
      [] e = "deactivate" -> 3
      [] e = "reactivate" -> 4
      [] e = "ready_to_remove" -> 5

\* C8 amended: within a tick the callback request is handled first; then a
\* restart request (with no removal pending) sets deactivate_requested if
\* the plugin is active and otherwise activates it at once, which ends the
\* tick; then comes the deactivation; then the re-activation for a restart,
\* only directly after the deactivation of that tick and ending the tick;
\* the ready-to-remove report comes last.
C8_TickOrder ==
    \A i \in 1..Len(tick_log) :
      /\ \A j \in 1..Len(tick_log) :
           i < j => CodeRank(tick_log[i]) < CodeRank(tick_log[j])
      /\ tick_log[i] \in {"activate", "reactivate"} => i = Len(tick_log)
      /\ tick_log[i] = "reactivate" => (i > 1 /\ tick_log[i - 1] = "deactivate")

\* A tick that handled the callback, scheduled the deactivate for a restart,
\* deactivated and re-activated.
C8_Witness ==
    /\ m_pc = "G801"
    /\ tick_log = <<"callback", "schedule_deactivate", "deactivate",
                    "reactivate">>
    /\ m_res = "PluginActivated"

\* C9 as claimed: restart cycle, each tick running with no step of another
\* thread in it.  A tick that starts with restart_requested set on a plugin
\* in one of the five active states (no removal pending) only sets
\* deactivate_requested and returns Ok; a tick that starts with
\* restart_requested set and state ActiveAndReadyToDeactivate (where the
\* process cycle in between leaves it) returns PluginActivated with
\* restart_requested clear and state ActiveAndSleeping.
C9_RestartAlwaysActivates ==
    (/\ m_pc = "G801" /\ m_op = "on_idle" /\ Alone
     /\ main_thread /\ tick_start.restart /\ ~remove_requested)
    => /\ tick_start.state \in ActiveNotReady
          => (m_res = "Ok" /\ deactivate_requested)
       /\ tick_start.state = "ActiveAndReadyToDeactivate"
          => /\ m_res = "PluginActivated"
             /\ ~restart_requested
             /\ state = "ActiveAndSleeping"

\* C9 amended: restart cycle, each tick running with no step of another
\* thread in it.  A tick that starts with restart_requested set on a plugin
\* in one of the five active states (no removal pending) only sets
\* deactivate_requested and returns Ok; a tick that starts with
\* restart_requested set and state ActiveAndReadyToDeactivate calls the
\* plugin's deactivate, clears both flags and re-activates the plugin: when
\* the activation succeeds the tick returns PluginActivated with state
\* ActiveAndSleeping, and when it fails the tick returns
\* PluginFailedToActivate with state InactiveWithError and no handle.
C9_RestartCycle ==
    (/\ m_pc = "G801" /\ m_op = "on_idle" /\ Alone
     /\ main_thread /\ tick_start.restart /\ ~remove_requested)
    => /\ tick_start.state \in ActiveNotReady
          => /\ m_res = "Ok"
             /\ deactivate_requested
             /\ restart_requested
             /\ state = tick_start.state
             /\ \A i \in 1..Len(tick_log) :
                  tick_log[i] \in {"callback", "schedule_deactivate"}
       /\ tick_start.state = "ActiveAndReadyToDeactivate"
          => /\ ~restart_requested
             /\ ~deactivate_requested
             /\ \E i \in 1..Len(tick_log) :
                  /\ tick_log[i] = "deactivate"
                  /\ i < Len(tick_log)
                  /\ tick_log[i + 1] = "reactivate"
             /\ IF m_err = "none"
                  THEN /\ m_res = "PluginActivated"
                       /\ m_handle
                       /\ state = "ActiveAndSleeping"
                  ELSE /\ m_res = "PluginFailedToActivate"
                       /\ m_err \in {"PluginSpecific",
                                     "PluginFailedToGetAudioPortsExt"}
                       /\ ~m_handle
                       /\ state = "InactiveWithError"

\* The second tick of the restart cycle has returned PluginActivated.
C9_Witness ==
    /\ m_pc = "G801"
    /\ m_op = "on_idle"
    /\ Alone
    /\ tick_start.restart
    /\ tick_start.deactivate
    /\ tick_start.state = "ActiveAndReadyToDeactivate"
    /\ m_res = "PluginActivated"

\* C10 as claimed: a cycle in which the plugin's process returned Error ends
\* with the outputs cleared and the state at ActiveWithError.
C10_ErrorStatusSetsErrorState ==
    [][(CycleEnds /\ a_status = "Error")
         => (cleared' /\ state' = "ActiveWithError")]_vars

\* The plugin's process has been called in the cycle in progress.
ProcessCalled == \E i \in 1..Len(a_calls) : a_calls[i] = "process"

\* C11: a cycle in which start_processing fails ends with the state at
\* ActiveWithError and the outputs cleared, without a call of process; a
\* cycle that starts in ActiveWithError clears the outputs and calls neither
\* start_processing nor process, and ends in ActiveWithError, or in
\* ActiveAndReadyToDeactivate when a deactivation was requested.
C11_StartFailureIsSticky ==
    [][/\ (CycleEnds /\ a_pc = "L405")
          => /\ state' = "ActiveWithError"
             /\ cleared'
             /\ a_calls' = <<"start_processing">>
       /\ (CycleEnds /\ a_state = "ActiveWithError")
          => /\ cleared'
             /\ a_calls' = <<>>
             /\ state' = IF a_pc = "L358" THEN "ActiveAndReadyToDeactivate"
                         ELSE "ActiveWithError"]_vars

\* A cycle that started in ActiveWithError has ended there, outputs cleared.
C11_Witness ==
    /\ a_pc = "L467"
    /\ a_state = "ActiveWithError"
    /\ state = "ActiveWithError"
    /\ cleared
    /\ a_calls = <<>>

\* C12 as claimed: a sleeping plugin whose process_requested is clear when
\* the cycle loads it (L394), with no input event present (nothing in the
\* program produces one), stays asleep: the outputs are cleared, the cycle
\* returns, start_processing is not called and the state is unchanged.
C12_SleepingStaysAsleep ==
    [][(a_pc = "L394" /\ a_pc' # "L394" /\ ~process_requested)
         => (a_pc' = "L467" /\ cleared' /\ a_calls' = <<>>
               /\ state' = "ActiveAndSleeping")]_vars

----------------------------------------------------------------------------
\* Properties of the audio graph

\* A request that passes the four lookups of connect_edge (L331-L373).
PassesLookups(edge) ==
    /\ edge.src_plugin_id \in DOMAIN plugins
    /\ edge.dst_plugin_id \in DOMAIN plugins
    /\ PortChannelID(edge.edge_type, edge.src_port_stable_id, FALSE,
                     edge.src_port_channel)
         \in plugins[edge.src_plugin_id].port_channels_refs
    /\ PortChannelID(edge.edge_type, edge.dst_port_stable_id, TRUE,
                     edge.dst_port_channel)
         \in plugins[edge.dst_plugin_id].port_channels_refs

\* The nodes the edges E lead to from node n in one step or more.
Downstream(E, n) ==
    ReachFrom(E, {e.dst[1] : e \in {x \in E : x.src[1] = n}})

SrcPort(edge) ==
    <<edge.src_plugin_id,
      PortChannelID(edge.edge_type, edge.src_port_stable_id, FALSE,
                    edge.src_port_channel)>>

DstPort(edge) ==
    <<edge.dst_plugin_id,
      PortChannelID(edge.edge_type, edge.dst_port_stable_id, TRUE,
                    edge.dst_port_channel)>>

\* The answer the claim gives for a request: the first that applies of the
\* source not in the registry, the destination not in the registry, no such
\* output port on the source, no such input port on the destination, and
\* a cycle.
ClaimedConnectResult(edge) ==
    IF edge.src_plugin_id \notin DOMAIN plugins THEN "SrcPluginDoesNotExist"
    ELSE IF edge.dst_plugin_id \notin DOMAIN plugins
      THEN "DstPluginDoesNotExist"
    ELSE IF SrcPort(edge) \notin g_ports THEN "SrcPortDoesNotExist"
    ELSE IF DstPort(edge) \notin g_ports THEN "DstPortDoesNotExist"
    ELSE IF edge.src_plugin_id \in ReachFrom(g_edges, {edge.dst_plugin_id})
      THEN "Cycle"
    ELSE "Ok"

\* C15: connect_edge answers SrcPluginDoesNotExist, DstPluginDoesNotExist,
\* SrcPortDoesNotExist (no output port with the edge's type, stable id and
\* channel on the source), DstPortDoesNotExist and Cycle, checked in this
\* order; on an error the edges are unchanged; a successful connect adds
\* the edge from the output port to the input port, both of the edge's
\* type.  Stated for the requests whose two ports are not yet connected.
C15_ConnectEdgeErrors ==
    \A edge \in EdgeRequests, exists_ok \in BOOLEAN :
      LET r == connect_edge(plugins, g_ports, g_edges, edge, exists_ok)
          new == [src |-> SrcPort(edge), dst |-> DstPort(edge)]
      IN  new \notin g_edges
            => /\ r.res = ClaimedConnectResult(edge)
               /\ r.res # "Ok" => r.edges = g_edges
               /\ r.res = "Ok"
                    => /\ r.edges = g_edges \cup {new}
                       /\ ~new.src[2].is_input
                       /\ new.dst[2].is_input
                       /\ new.src[2].port_type = new.dst[2].port_type

\* C16: remove_plugin_instances ignores the graph-in and graph-out ids: the
\* call leaves the abstract graph and the registry with its flags as they
\* are and removes nothing, so the graph-in and graph-out nodes, their
\* ports and their registry entries exist in every reachable state.
C16_GraphInOutStay ==
    /\ [](/\ {graph_in_node_id, graph_out_node_id} \subseteq g_nodes
          /\ {graph_in_node_id, graph_out_node_id} \subseteq DOMAIN plugins
          /\ AudioGraph_reset_ports \subseteq g_ports
          /\ \A n \in {graph_in_node_id, graph_out_node_id} :
               plugins[n] = AudioGraph_reset_plugins[n])
    /\ [][g_res' = "ignored"
            => UNCHANGED <<g_nodes, g_ports, g_edges, g_next, plugins>>]_vars

\* A removal of graph-in or graph-out has been refused in a graph that has
\* a plugin connected to graph-in.
C16_Witness ==
    /\ g_res = "ignored"
    /\ \E e \in g_edges : e.src[1] = graph_in_node_id /\ e.dst[1] \in g_nodes

----------------------------------------------------------------------------
\* Properties of the schedule cell

\* C17: a compile whose compile_graph returned Ok publishes that schedule
\* to the cell; a compile whose compile_graph returned an error sets the
\* cell to a new empty schedule; after a failed compile the cell does not
\* hold the schedule that was live before it.
C17_CompilePublishes ==
    [][sched_count' # sched_count
         => /\ sched_cell'.id = sched_count'
            /\ sched_cell'.id # sched_cell.id
            /\ c_res' = "Ok" => sched_cell'.tasks = c_out'
            /\ c_res' # "Ok" => sched_cell' = Schedule_empty(sched_count')
            /\ c_res' \in {"Ok", "VerifierError", "UnexpectedError"}]_vars

\* A compile has failed while a schedule with tasks was live, and the cell
\* holds an empty schedule.
C17_Witness ==
    /\ c_res = "VerifierError"
    /\ sched_cell.tasks = <<>>
    /\ ps_pc = "L84"
    /\ ps_sched.tasks # <<>>
    /\ sched_cell.id = ps_sched.id + 1

\* C18: a call of process_interleaved loads the cell once and runs the
\* tasks of that one schedule in order, whatever set_new_schedule does in
\* the meantime; the schedule it loads is the one published last before
\* the call started, or a later one; it returns after the last task.
C18_OneScheduleACycle ==
    /\ Len(ps_ran) = ps_i - 1
    /\ Len(ps_ran) <= Len(ps_sched.tasks)
    /\ \A k \in 1..Len(ps_ran) :
         /\ ps_ran[k].schedule = ps_sched.id
         /\ k <= Len(ps_sched.tasks)
         /\ ps_ran[k].task = ps_sched.tasks[k]
    /\ ps_pc = "L84" => ps_sched.id >= ps_seen
    /\ (ps_pc = "idle" /\ ps_ran # <<>>)
         => /\ ps_i = Len(ps_sched.tasks) + 1
            /\ ps_sched.id >= ps_seen

\* A call that started after the first publication loaded the second and
\* ran its two tasks to the end while a third schedule was published.
C18_Witness ==
    /\ ps_pc = "idle"
    /\ ps_seen = 1
    /\ ps_sched.id = 2
    /\ Len(ps_ran) = 2
    /\ sched_cell.id = 3
    /\ sched_cell.tasks # <<>>

\* The Plugin tasks of a task list that hold the handle of plugin n.
PluginTasksOf(tasks, n) ==
    {i \in 1..Len(tasks) : tasks[i].kind = "Plugin" /\ tasks[i].plugin = n}

\* C20: in every schedule compile has published, and so in every schedule
\* the audio thread runs, each plugin is in at most one Plugin task: a
\* cycle borrows no plugin handle twice.
C20_PluginOncePerSchedule ==
    \A n \in PluginIds :
      /\ Cardinality(PluginTasksOf(sched_cell.tasks, n)) <= 1
      /\ Cardinality(PluginTasksOf(ps_sched.tasks, n)) <= 1
      /\ Cardinality({k \in 1..Len(ps_ran) :
                        /\ ps_ran[k].task.kind = "Plugin"
                        /\ ps_ran[k].task.plugin = n}) <= 1

\* A schedule with a Plugin task for each of two plugins is live and a
\* cycle has run both.
C20_Witness ==
    /\ c_res = "Ok"
    /\ \A n \in PluginIds : Cardinality(PluginTasksOf(sched_cell.tasks, n)) = 1
    /\ ps_sched = sched_cell
    /\ Len(ps_ran) = Len(ps_sched.tasks)

----------------------------------------------------------------------------
\* Properties of the save state

\* The node ref a node of the saved graph has in the restored graph when
\* the save state lists the plugins `saved`.
RestoredRef(saved, n) ==
    IF n \in AudioGraph_reset_nodes THEN n
    ELSE 1 + (CHOOSE i \in 1..Len(saved) : saved[i].origin = n)

\* The node a saved index stands for under the convention: 0 is graph-in,
\* 1 is graph-out, i >= 2 is the (i-2)-th plugin of the saved list.
ConventionNode(saved, i) ==
    IF i = 0 THEN graph_in_node_id
    ELSE IF i = 1 THEN graph_out_node_id
    ELSE saved[i - 1].origin

\* C19: restore_from_save_state(collect_save_state()) yields a graph with
\* the same plugins in the same order and the same edges, and the indices
\* of every saved edge follow the convention 0 = graph-in, 1 = graph-out,
\* i >= 2 = the (i-2)-th plugin of the saved plugin list.
C19_RoundTrip ==
    /\ [](\A order \in iteration_orders(plugins) :
            LET saved == collect_save_state(order)
            IN  ~saved.panicked
                  => \A s \in saved.edges :
                       \E e \in g_edges :
                         /\ s.src_plugin_i < Len(saved.plugins) + 2
                         /\ s.dst_plugin_i < Len(saved.plugins) + 2
                         /\ ConventionNode(saved.plugins, s.src_plugin_i)
                              = e.src[1]
                         /\ ConventionNode(saved.plugins, s.dst_plugin_i)
                              = e.dst[1]
                         /\ s.edge_type = e.src[2].port_type
                         /\ s.src_port_stable_id = e.src[2].port_stable_id
                         /\ s.dst_port_stable_id = e.dst[2].port_stable_id)
    /\ [][g_saved'.restored
            => LET saved == g_saved'.plugins
                   N == Len(saved)
               IN  /\ ~g_saved'.panicked
                   /\ {saved[i].origin : i \in 1..N}
                        = g_nodes \ AudioGraph_reset_nodes
                   /\ \A i, j \in 1..N :
                        i < j => saved[i].origin < saved[j].origin
                   /\ g_nodes' = 0..(N + 1)
                   /\ DOMAIN plugins' = 0..(N + 1)
                   /\ \A i \in 1..N :
                        plugins'[i + 1].activation_requested
                          = plugins[saved[i].origin].activation_requested
                   /\ g_edges' =
                        {[src |-> <<RestoredRef(saved, e.src[1]), e.src[2]>>,
                          dst |-> <<RestoredRef(saved, e.dst[1]), e.dst[2]>>] :
                           e \in g_edges}]_vars

----------------------------------------------------------------------------
\* Properties of the compiled schedule

\* The buffers of a list are pairwise different.
AllDifferent(buffers) ==
    Cardinality({buffers[i] : i \in 1..Len(buffers)}) = Len(buffers)

\* No task of the list has a buffer twice among its inputs or twice among
\* its outputs.
BuffersOncePerTask(tasks) ==
    \A i \in 1..Len(tasks) :
      AllDifferent(tasks[i].audio_in) /\ AllDifferent(tasks[i].audio_out)

\* C21: in every schedule compile has published, and so in every schedule
\* the audio thread runs, no task has a buffer twice among its inputs or
\* twice among its outputs; once compile has run, a task list that has one
\* is refused by compile_graph with BufferAppearsTwiceInSameTask, and the
\* compile that got this error has published the empty schedule.
C21_BufferOncePerTask ==
    /\ BuffersOncePerTask(sched_cell.tasks)
    /\ BuffersOncePerTask(ps_sched.tasks)
    /\ \A k \in 1..Len(ps_ran) : BuffersOncePerTask(<<ps_ran[k].task>>)
    /\ \A candidate \in Candidates :
         (c_res # "none" /\ ~BuffersOncePerTask(candidate))
           => compile_graph(candidate, FALSE) =
                [res |-> "VerifierError",
                 err |-> "BufferAppearsTwiceInSameTask", tasks |-> <<>>]
    /\ c_err = "BufferAppearsTwiceInSameTask"
         => c_res = "VerifierError" /\ sched_cell = Schedule_empty(sched_count)

\* A compile was refused for a buffer that appears twice while a schedule
\* of two tasks was running, and the cycle has run both tasks.
C21_Witness ==
    /\ c_err = "BufferAppearsTwiceInSameTask"
    /\ sched_cell.tasks = <<>>
    /\ Len(ps_sched.tasks) = 2
    /\ Len(ps_ran) = 2
    /\ sched_cell.id > ps_sched.id

\* What the input slice holds for channel c of frame f.
InputSample(c, f) == t_in[(f - 1) * MaxChannels + c]

\* C22: when the passthrough task of a cycle has run, every output buffer
\* of a pair holds in its first proc_info.frames frames the samples the
\* paired input buffer held when the task started, which are those of the
\* input slice, and every extra output buffer holds zeros there; when the
\* cycle of a stereo-in/stereo-out plugin has returned, the output slice
\* equals the input slice.
C22_Passthrough ==
    /\ t_pc = "out" =>
         \A f \in 1..proc_frames(t_in) :
           /\ \A i \in DOMAIN t_task.audio_through :
                /\ t_buf[t_task.audio_through[i][2]][f] = InputSample(i, f)
                /\ t_buf[t_task.audio_through[i][1]][f] = InputSample(i, f)
           /\ \A i \in DOMAIN t_task.extra_audio_out :
                t_buf[t_task.extra_audio_out[i]][f] = 0
    /\ (t_pc = "idle" /\ Len(t_task.audio_through) = MaxChannels)
         => t_out = t_in

\* The cycle of a stereo-in/stereo-out plugin has returned two frames that
\* are not silent and differ between the channels, over buffers that held
\* other samples before.
C22_Witness ==
    /\ t_pc = "idle"
    /\ Len(t_task.audio_through) = MaxChannels
    /\ t_task.extra_audio_out = <<>>
    /\ proc_frames(t_in) = MaxFrames
    /\ t_out = t_in
    /\ t_in[1] # t_in[2]
    /\ t_in[3] # t_in[1]

----------------------------------------------------------------------------
\* Properties of the coordinator's on_idle

\* The results of a tick that are a structural change: the plugin was
\* activated, was deactivated, failed to re-activate, or its entry is
\* removed.
StructuralChange ==
    {"PluginActivated", "PluginDeactivated", "PluginFailedToActivate",
     "PluginReadyToRemove"}

\* C24: when AudioGraph::on_idle returns, the recompile flag it returns is
\* set if and only if the tick of the plugin was a structural change.
C24_RecompileIffStructural ==
    [][(m_pc = "G876" /\ m_pc' = "idle")
         => (recompile_graph <=> m_res \in StructuralChange)]_vars

\* C25: between coordinator operations, the entry of a plugin holds an
\* audio-thread handle if and only if the plugin is activated.
C25_HandleIffActivated ==
    (m_pc = "idle" /\ in_pool) => (audio_thread <=> is_active(state))

----------------------------------------------------------------------------
\* Properties of PluginHostProcThread

\* A step is a call of process.
ProcessCycle == h_cycle'.n # h_cycle.n /\ h_cycle'.op = "process"

\* C23: a call of process on an active plugin whose main-to-audio queue
\* holds a value hands the plugin that value, the last one written, and
\* leaves the queue empty; a value the plugin's process puts out is in the
\* audio-to-main queue after the call, where the next on_idle reads it.
C23_LatestValueWins ==
    [][/\ (ProcessCycle /\ h_active = "Active" /\ h_to_audio # 0)
            => (h_cycle'.passed = h_to_audio /\ h_to_audio' = 0)
       /\ (ProcessCycle /\ h_cycle'.emitted.param # 0)
            => h_to_main' = h_cycle'.emitted.param]_vars

\* The calls alternate: start_processing only on a plugin that is not
\* processing, stop_processing and process only on one that is.
RECURSIVE Alternates(_, _)
Alternates(calls, processing) ==
    \/ calls = <<>>
    \/ /\ calls[1] \in {"start_processing", "start_processing_err"}
            => ~processing
       /\ calls[1] \in {"stop_processing", "process"} => processing
       /\ Alternates(Tail(calls), plugin_after(<<calls[1]>>, processing))

\* C26: the calls a call of process or the drop makes to the plugin
\* alternate, given whether the plugin was processing before, and
\* start_processing is called only on an active plugin.
C26_StartStopAlternate ==
    [][h_cycle'.n # h_cycle.n
         => /\ Alternates(h_cycle'.calls, h_plugin)
            /\ (\E i \in DOMAIN h_cycle'.calls :
                  h_cycle'.calls[i] \in {"start_processing",
                                         "start_processing_err"})
                 => h_active = "Active"]_vars

\* C27: a call of process that finds the plugin waiting to be dropped
\* calls stop_processing if and only if the plugin is processing, clears
\* the audio outputs and does not call process.
C27_DeactivateBranch ==
    [][(ProcessCycle /\ h_active = "WaitingToDrop")
         => /\ (h_cycle'.calls = <<"stop_processing">>) <=> h_plugin
            /\ h_cycle'.calls \in {<<>>, <<"stop_processing">>}
            /\ h_cycle'.outputs_cleared]_vars

\* C28: a call of process on an active plugin whose last status was
\* ContinueIfNotQuiet puts the plugin to sleep if and only if the audio
\* inputs are silent and no note event was input: it then calls
\* stop_processing and not process, stores Stopped and clears the
\* outputs; otherwise it calls process.
C28_SleepWhenQuiet ==
    [][(/\ ProcessCycle
        /\ h_active = "Active"
        /\ h_pstate = Started("ContinueIfNotQuiet"))
         => IF h_cycle'.silent /\ ~h_cycle'.note_in
              THEN /\ h_cycle'.calls \in {<<"stop_processing">>,
                                          <<"stop_processing", "param_flush">>}
                   /\ h_pstate' = Stopped
                   /\ h_cycle'.outputs_cleared
              ELSE /\ h_cycle'.calls[1] = "process"
                   /\ h_pstate' # Stopped \/ Len(h_cycle'.calls) = 2]_vars

\* A plugin that had answered ContinueIfNotQuiet was put to sleep by a
\* call with silent inputs and no note event.
C28_Witness ==
    /\ h_cycle.op = "process"
    /\ h_cycle.silent
    /\ ~h_cycle.note_in
    /\ h_cycle.calls = <<"stop_processing">>
    /\ h_pstate = Stopped
    /\ ~h_plugin

\* C29: a call of process after which the plugin is waiting for its tail
\* and whose outputs were silent has called stop_processing after
\* process; that is, no call whose process put out silence leaves the
\* plugin in Started(Tail).
C29_TailSilent ==
    [][(/\ ProcessCycle
        /\ \E i \in DOMAIN h_cycle'.calls : h_cycle'.calls[i] = "process"
        /\ h_cycle'.emitted.silent)
         => h_pstate' # Started("Tail")]_vars

\* C30: after a call of process the output event buffers hold the events
\* the plugin's process put out in this call and nothing else; they are
\* empty after a call that returned early.
C30_OutputEventsCleared ==
    [][ProcessCycle
         => /\ h_param_out' = IF h_cycle'.emitted.param # 0
                                THEN <<h_cycle'.emitted.param>> ELSE <<>>
            /\ h_note_out' = IF h_cycle'.emitted.note
                               THEN <<"note">> ELSE <<>>]_vars

\* A call has returned early, without a call of process, after an earlier
\* call whose process had put out a parameter value and a note event; the
\* buffers are empty.
C30_Witness ==
    /\ h_cycle.op = "process"
    /\ h_cycle.calls = <<>>
    /\ h_pstate = Errored
    /\ h_to_main # 0
    /\ h_param_out = <<>>
    /\ h_note_out = <<>>

----------------------------------------------------------------------------
\* Properties of AudioGraph::reset

\* C31: a step of reset, timed out or not, ends with the registry holding
\* the graph-in and graph-out entries only, the abstract graph holding
\* those two nodes with their audio ports and no edge, and the schedule
\* cell holding the empty schedule.
C31_ResetState ==
    [][AudioGraph_reset
         => /\ DOMAIN plugins' = {graph_in_node_id, graph_out_node_id}
            /\ g_nodes' = {graph_in_node_id, graph_out_node_id}
            /\ g_ports' = {<<graph_in_node_id, p>> : p \in GraphInPorts}
                 \cup {<<graph_out_node_id, p>> : p \in GraphOutPorts}
            /\ plugins'[graph_in_node_id].port_channels_refs = GraphInPorts
            /\ plugins'[graph_out_node_id].port_channels_refs = GraphOutPorts
            /\ g_edges' = {}
            /\ sched_cell'.tasks = <<>>]_vars

\* A reset has timed out on a graph that had a plugin, and the cell held a
\* schedule with tasks two stores ago.
C31_Witness ==
    /\ g_res = "timed out"
    /\ DOMAIN plugins = {graph_in_node_id, graph_out_node_id}
    /\ g_edges = {}
    /\ c_res = "Ok"
    /\ c_out # <<>>
    /\ sched_cell = Schedule_empty(sched_count)

----------------------------------------------------------------------------
\* Properties of the handle of a deactivated activation

\* The tick in progress has called the plugin's deactivate (L279).  Until
\* the tick returns no schedule has been compiled, so the handle the audio
\* thread runs is the handle of an activation that has been deactivated.
DeactivatedInTick == \E i \in DOMAIN tick_log : tick_log[i] = "deactivate"

\* C32: once the tick has called the plugin's deactivate, the audio thread
\* calls neither start_processing nor process nor stop_processing on the
\* handle it holds.
C32_NoCallAfterDeactivate ==
    [][DeactivatedInTick => Len(a_calls') <= Len(a_calls)]_vars

----------------------------------------------------------------------------
\* Properties of the outputs of a cycle

\* C33: a process cycle that returns without having called the plugin's
\* process has cleared the audio outputs.
C33_ClearedUnlessProcessed ==
    (a_pc = "L467" /\ ~ProcessCalled) => cleared

----------------------------------------------------------------------------
\* Properties of the restart of a plugin the user has deactivated

\* The tick calls activate: at L266 for an inactive plugin that asked for
\* a restart, at L290 after the deactivation.
OnIdleActivates ==
    m_act_caller' \in {"L266", "L290"} /\ m_act_caller' # m_act_caller

\* C34: after schedule_deactivate on a plugin that has been activated, and
\* until the coordinator calls activate, no tick of on_idle activates the
\* plugin: save_state.activation_requested, false since the
\* schedule_deactivate, is true whenever on_idle calls activate.
C34_NoRestartAfterUserDeactivate ==
    [][(OnIdleActivates /\ handles) => save_activation_requested]_vars

----------------------------------------------------------------------------
\* Properties of a plugin that has been asked to remove itself

\* The host's on_idle returns to AudioGraph::on_idle.
TickReturns == m_op = "on_idle" /\ m_pc # "G801" /\ m_pc' = "G801"

\* C35: once remove_requested is set no tick calls activate, and the tick
\* that calls the plugin's deactivate returns PluginReadyToRemove.
C35_RemoveIsFinal ==
    [][/\ remove_requested => ~OnIdleActivates
       /\ (remove_requested /\ TickReturns /\ DeactivatedInTick)
            => m_res' = "PluginReadyToRemove"]_vars

----------------------------------------------------------------------------
\* Removal of an active plugin under fair scheduling
\*
\* The plugin host of the graph together with the schedule cell: the audio
\* thread runs a cycle on the plugin's handle only while the schedule it
\* loads holds the plugin's task, and the engine recompiles between two
\* operations of the main thread.

\* The node of the plugin is in the abstract graph until
\* remove_plugin_instances deletes it (graph/mod.rs L306-L311).
node_in_graph == in_pool /\ ~remove_requested

\* What the compiler makes of the plugin: a Plugin task with a clone of
\* entry.audio_thread while the node is in the graph and the entry has a
\* handle, no task with the handle otherwise.
compile_entry ==
    IF node_in_graph /\ audio_thread
      THEN <<[kind |-> "Plugin", plugin |-> graph_out_node_id + 1,
              audio_in |-> [c \in 1..MaxChannels |-> c - 1],
              audio_out |-> [c \in 1..MaxChannels |-> c - 1]]>>
      ELSE <<>>

\* The schedules the engine publishes in one run: one with the plugin's
\* task and one without it.
MaxRecompiles == 2

\* The published schedule holds the plugin's task.
schedule_holds_task ==
    \E i \in 1..Len(sched_cell.tasks) : sched_cell.tasks[i].kind = "Plugin"

\* AudioGraph::compile (L759-L783), called by the engine after a change of
\* the graph or a tick that asked for it.
AudioGraph_compile_entry ==
    /\ m_pc = "idle"
    /\ sched_count < MaxRecompiles
    /\ SchedStep
    /\ sched_count' = sched_count + 1
    /\ c_res' = "Ok"
    /\ c_err' = "none"
    /\ c_out' = compile_entry
    /\ sched_cell' = Schedule(sched_count + 1, compile_entry)
    /\ UNCHANGED <<ps_pc, ps_seen, ps_sched, ps_i, ps_ran>>

\* A cycle of the schedule runs PluginInstanceHostAudioThread::process when
\* it comes to the plugin's task; a cycle that has started runs to its end.
ScheduledAudioThread ==
    /\ a_pc = "idle" => schedule_holds_task
    /\ AudioThread

LiveNext ==
    \/ MainThread
    \/ ScheduledAudioThread
    \/ Plugin
    \/ AudioGraph_compile_entry

\* The main thread finishes what it has started and calls on_idle again and
\* again; the audio thread runs cycle after cycle.
LiveSpec ==
    /\ Init
    /\ [][LiveNext]_vars
    /\ WF_vars(MainThread)
    /\ SF_vars(AudioGraph_on_idle)
    /\ WF_vars(ScheduledAudioThread)

----------------------------------------------------------------------------
\* Properties of the removal of an active plugin

\* C36: once remove_plugin_instances has been called for an active plugin,
\* the entry of the plugin is eventually removed from the registry, whether
\* or not a new schedule without the plugin's task is published before the
\* audio thread has seen deactivate_requested.
C36_RemovalCompletes == (remove_requested /\ is_active(state)) ~> ~in_pool

----------------------------------------------------------------------------
\* Properties of update_plugin_ports

\* The ports node n has in the abstract graph.
NodePorts(n) == {q[2] : q \in {r \in g_ports : r[1] = n}}

\* C37: after update_plugin_ports, and until the plugin is removed, the
\* port_channels_refs of the entry holds exactly the ports of the plugin's
\* layout, and they are the ports of its node in the abstract graph, so
\* connect_edge finds every port the plugin has kept.
C37_RefsMatchLayout ==
    \A n \in (DOMAIN plugins) \ AudioGraph_reset_nodes :
      (plugins[n].active /\ ~plugins[n].remove_requested) =>
        /\ plugins[n].port_channels_refs = PluginPorts
        /\ plugins[n].port_channels_refs = NodePorts(n)

----------------------------------------------------------------------------
\* Properties of the identity of a new plugin

\* add_new_plugin_instance has added a node.
NodeAdded ==
    /\ g_saved' = NoSaveState
    /\ g_nodes \subseteq g_nodes'
    /\ g_nodes' # g_nodes

\* C38: the identity add_new_plugin_instance gives a new plugin is the
\* identity of no entry of the registry, an entry of a removed plugin that
\* waits for its release included, so the insert of the new entry never
\* finds an entry in its place.
C38_FreshIdentity ==
    [][NodeAdded => (g_nodes' \ g_nodes) \cap (DOMAIN plugins) = {}]_vars

----------------------------------------------------------------------------
\* Properties of the saved edge list

\* abstract_graph.node_edges(n): the edges that leave node n and the edges
\* that enter it (get_plugin_edges tells them apart, L460-L494).
node_edges(E, n) == {e \in E : e.src[1] = n \/ e.dst[1] = n}

\* The number of EdgeSaveStates the second loop of collect_save_state
\* (L530-L546) pushes for edge e when the registry is iterated in `order`.
edge_save_states(order, e) ==
    Cardinality({i \in 1..Len(order) : e \in node_edges(g_edges, order[i])})

\* C39: collect_save_state lists every edge of the abstract graph exactly
\* once in the saved edge list, so the list has as many records as the
\* graph has edges.
C39_EdgesSavedOnce ==
    \A order \in iteration_orders(plugins) :
      ~collect_save_state(order).panicked
        => \A e \in g_edges : edge_save_states(order, e) = 1

----------------------------------------------------------------------------
\* Properties of a host whose plugin failed to load

\* An activation of the host has failed in can_activate.
ActivateFailed ==
    m_op = "activate_plugin_instance" /\ m_pc = "G242"

\* C40: a host built without a main-thread handle has the state
\* InactiveWithError from its construction on, and every activation of it
\* fails with NotLoaded.
C40_NotLoaded ==
    ~main_thread =>
      /\ state = "InactiveWithError"
      /\ ActivateFailed => m_err = "NotLoaded"

====
